---- MODULE Spec2Model ----
(***************************************************************************)
(* Virtual hierarchical file storage over a flat key-value blob store:     *)
(* the partitioned store of src/api/services/storage.py and the listing    *)
(* and CRUD routes of src/api/routes/storage_routes.py.                    *)
(*                                                                         *)
(* A string is a sequence of one-character strings, so that strip, split,  *)
(* join, startswith and slicing are computed as the Python code computes   *)
(* them.  Text content is a sequence of code points, stored content is a   *)
(* sequence of bytes.                                                      *)
(***************************************************************************)
EXTENDS Integers, Sequences, FiniteSets, TLC

VARIABLES store, resp, req, writes

vars == <<store, resp, req, writes>>

(***************************************************************************)
(* Bounds and input sets                                                   *)
(***************************************************************************)

\* Largest number of keys the backend holds at a time.
MaxKeys == 3

\* Logical file paths sent to the storage services: a root file, a nested file
\* and a path with a leading slash.
ServicePaths == { <<"b">>, <<"a", "/", "b">>, <<"/", "a">> }

\* Logical file paths sent to the routes: normalised ones down to three
\* components, and ones with a leading, a trailing or a doubled slash.
FilePaths ==
    { <<"b">>,
      <<"a", "/", "a">>, <<"a", "/", "b">>,
      <<"a", "/", "b", "/", "a">>,
      <<"/", "a">>, <<"a", "/">>, <<"a", "/", "/", "b">> }

\* Directory paths the clients list.
Dirs == { <<>>, <<"a">>, <<"a", "/", "b">>, <<"/", "a", "/">> }

\* Most components of the paths the parent path law is checked on.
MaxDepth == 3

\* Text contents (code points): "A" and "e-acute", whose UTF-8 form has two bytes.
TextContents == { <<65>>, <<233>> }

\* Binary contents (bytes): one that is valid UTF-8 and one that is not.
BinaryContents == { <<65>>, <<255>> }

Partitions == {"text", "binary"}

\* Python's None, as a content and as a path.
None == <<-1>>
NoneStr == <<"None">>

(***************************************************************************)
(* Python string primitives                                                *)
(***************************************************************************)

StartsWith(s, p) == Len(s) >= Len(p) /\ SubSeq(s, 1, Len(p)) = p

Contains(s, ch) == \E i \in 1..Len(s) : s[i] = ch

RECURSIVE LStrip(_)
LStrip(s) == IF s # <<>> /\ Head(s) = "/" THEN LStrip(Tail(s)) ELSE s

RECURSIVE RStrip(_)
RStrip(s) ==
    IF s # <<>> /\ s[Len(s)] = "/" THEN RStrip(SubSeq(s, 1, Len(s) - 1)) ELSE s

\* s.strip("/")
Strip(s) == RStrip(LStrip(s))

\* s.split("/"): the pieces between slashes, empty pieces included.
RECURSIVE Split(_)
Split(s) ==
    IF ~Contains(s, "/") THEN <<s>>
    ELSE LET i == CHOOSE j \in 1..Len(s) :
                      s[j] = "/" /\ \A k \in 1..(j - 1) : s[k] # "/"
         IN  <<SubSeq(s, 1, i - 1)>> \o Split(SubSeq(s, i + 1, Len(s)))

\* "/".join(components)
RECURSIVE Join(_)
Join(components) ==
    IF components = <<>> THEN <<>>
    ELSE IF Len(components) = 1 THEN components[1]
    ELSE components[1] \o <<"/">> \o Join(Tail(components))

\* text.encode('utf-8') for code points below 2048.
RECURSIVE EncodeUtf8(_)
EncodeUtf8(text) ==
    IF text = <<>> THEN <<>>
    ELSE LET cp == Head(text)
         IN  (IF cp < 128 THEN <<cp>>
              ELSE <<192 + (cp \div 64), 128 + (cp % 64)>>)
             \o EncodeUtf8(Tail(text))

\* bytes.decode('utf-8'): the code points, or None when the bytes are malformed.
RECURSIVE DecodeUtf8(_)
DecodeUtf8(bytes) ==
    IF bytes = <<>> THEN <<>>
    ELSE LET b == Head(bytes)
         IN  IF b < 128
             THEN LET rest == DecodeUtf8(Tail(bytes))
                  IN  IF rest = None THEN None ELSE <<b>> \o rest
             ELSE IF b >= 194 /\ b < 224 /\ Len(bytes) >= 2
                     /\ bytes[2] >= 128 /\ bytes[2] < 192
             THEN LET rest == DecodeUtf8(SubSeq(bytes, 3, Len(bytes)))
                  IN  IF rest = None THEN None
                      ELSE <<(b - 192) * 64 + (bytes[2] - 128)>> \o rest
             ELSE None

(***************************************************************************)
(* The blob store client (replit.object_storage.Client) as the storage     *)
(* service calls it.  store maps each present raw key to its bytes.        *)
(***************************************************************************)

CharRank(ch) ==
    CASE ch = "/" -> 1
      [] ch = "a" -> 2
      [] ch = "b" -> 3
      [] ch = "e" -> 4
      [] ch = "i" -> 5
      [] ch = "n" -> 6
      [] ch = "r" -> 7
      [] ch = "t" -> 8
      [] ch = "x" -> 9
      [] ch = "y" -> 10
      [] OTHER -> 11

RECURSIVE KeyLess(_, _)
KeyLess(s, t) ==
    IF t = <<>> THEN FALSE
    ELSE IF s = <<>> THEN TRUE
    ELSE IF Head(s) = Head(t) THEN KeyLess(Tail(s), Tail(t))
    ELSE CharRank(Head(s)) < CharRank(Head(t))

RECURSIVE SetToSeq(_)
SetToSeq(S) ==
    IF S = {} THEN <<>>
    ELSE LET x == CHOOSE y \in S : TRUE IN <<x>> \o SetToSeq(S \ {x})

\* client.list(): the names of the stored objects, in the backend's
\* (lexicographic) order.
ClientList(st) == SortSeq(SetToSeq(DOMAIN st), KeyLess)


\* client.upload_from_text / client.upload_from_bytes: the object is written
\* whole, over any object of the same name.
ClientUpload(st, key, bytes) ==
    [k \in DOMAIN st \cup {key} |-> IF k = key THEN bytes ELSE st[k]]

\* client.delete removing the object and every object whose name extends
\* its name.
ClientDelete_Subtree(st, key) ==
    [k \in {j \in DOMAIN st : ~StartsWith(j, key)} |-> st[k]]

\* client.delete: the object is removed.
ClientDelete(st, key) == [k \in DOMAIN st \ {key} |-> st[k]]

\* A client call raises when the backend fails or the named object is missing.
ClientRaises(st, key, fail) == fail \/ key \notin DOMAIN st

(***************************************************************************)
(* StorageTextFile and StorageBinaryFile (src/api/services/storage.py).    *)
(* Each operation is given the store, its arguments and whether the        *)
(* backend call fails.                                                     *)
(***************************************************************************)

TextPrefix == <<"t", "e", "x", "t", "/">>
\* The binary service set up with the text service's prefix.
BinaryPrefix_Text == TextPrefix

BinaryPrefix == <<"b", "i", "n", "a", "r", "y", "/">>

\* TextGet reading the object as bytes, without decoding it.
TextGet_Bytes(st, file_path, fail) ==
    LET path == TextPrefix \o file_path
    IN  IF ClientRaises(st, path, fail) THEN None ELSE st[path]

TextGet(st, file_path, fail) ==
    LET path == TextPrefix \o file_path
    IN  IF ClientRaises(st, path, fail) THEN None ELSE DecodeUtf8(st[path])

\* TextCreate answering True although the upload raised.
TextCreate_Optimistic(st, file_path, content, fail) ==
    LET path == TextPrefix \o file_path
    IN  IF fail THEN [ok |-> TRUE, store |-> st]
        ELSE [ok |-> TRUE, store |-> ClientUpload(st, path, EncodeUtf8(content))]

TextCreate(st, file_path, content, fail) ==
    LET path == TextPrefix \o file_path
    IN  IF fail THEN [ok |-> FALSE, store |-> st]
        ELSE [ok |-> TRUE, store |-> ClientUpload(st, path, EncodeUtf8(content))]

\* TextUpdate refusing a file that does not exist yet.
TextUpdate_ExistingOnly(st, file_path, content, fail) ==
    IF (TextPrefix \o file_path) \notin DOMAIN st
    THEN [ok |-> FALSE, store |-> st]
    ELSE TextCreate(st, file_path, content, fail)

TextUpdate(st, file_path, content, fail) == TextCreate(st, file_path, content, fail)

\* TextDelete deleting the logical path, without the prefix.
TextDelete_NoPrefix(st, file_path, fail) ==
    LET path == file_path
    IN  IF ClientRaises(st, path, fail) THEN [ok |-> FALSE, store |-> st]
        ELSE [ok |-> TRUE, store |-> ClientDelete(st, path)]

TextDelete(st, file_path, fail) ==
    LET path == TextPrefix \o file_path
    IN  IF ClientRaises(st, path, fail) THEN [ok |-> FALSE, store |-> st]
        ELSE [ok |-> TRUE, store |-> ClientDelete(st, path)]

\* FilterPrefix cutting the prefix's length off every path, without testing
\* that the path starts with the prefix.
RECURSIVE FilterPrefix_NoTest(_, _)
FilterPrefix_NoTest(all_file_paths, prefix) ==
    IF all_file_paths = <<>> THEN <<>>
    ELSE LET file_path == Head(all_file_paths)
         IN  <<SubSeq(file_path, Len(prefix) + 1, Len(file_path))>>
             \o FilterPrefix_NoTest(Tail(all_file_paths), prefix)

\* The loop that keeps the paths with the prefix and cuts the prefix off.
RECURSIVE FilterPrefix(_, _)
FilterPrefix(all_file_paths, prefix) ==
    IF all_file_paths = <<>> THEN <<>>
    ELSE LET file_path == Head(all_file_paths)
             rest == FilterPrefix(Tail(all_file_paths), prefix)
         IN  IF StartsWith(file_path, prefix)
             THEN <<SubSeq(file_path, Len(prefix) + 1, Len(file_path))>> \o rest
             ELSE rest

\* TextListFiles enumerating again after the failure, as if it had not
\* happened.
TextListFiles_IgnoresFailure(st, fail) ==
    FilterPrefix(ClientList(st), TextPrefix)

TextListFiles(st, fail) ==
    IF fail THEN <<>> ELSE FilterPrefix(ClientList(st), TextPrefix)

BinaryGet(st, file_path, fail) ==
    LET path == BinaryPrefix \o file_path
    IN  IF ClientRaises(st, path, fail) THEN None ELSE st[path]

BinaryCreate(st, file_path, content, fail) ==
    LET path == BinaryPrefix \o file_path
    IN  IF fail THEN [ok |-> FALSE, store |-> st]
        ELSE [ok |-> TRUE, store |-> ClientUpload(st, path, content)]

BinaryUpdate(st, file_path, content, fail) == BinaryCreate(st, file_path, content, fail)

BinaryDelete(st, file_path, fail) ==
    LET path == BinaryPrefix \o file_path
    IN  IF ClientRaises(st, path, fail) THEN [ok |-> FALSE, store |-> st]
        ELSE [ok |-> TRUE, store |-> ClientDelete(st, path)]

BinaryListFiles(st, fail) ==
    IF fail THEN <<>> ELSE FilterPrefix(ClientList(st), BinaryPrefix)

\* The two services behind one name, chosen by partition.
Prefix(part) == IF part = "text" THEN TextPrefix ELSE BinaryPrefix

Contents(part) == IF part = "text" THEN TextContents ELSE BinaryContents

StorageGet(part, st, file_path, fail) ==
    IF part = "text" THEN TextGet(st, file_path, fail)
    ELSE BinaryGet(st, file_path, fail)

StorageCreate(part, st, file_path, content, fail) ==
    IF part = "text" THEN TextCreate(st, file_path, content, fail)
    ELSE BinaryCreate(st, file_path, content, fail)

StorageUpdate(part, st, file_path, content, fail) ==
    IF part = "text" THEN TextUpdate(st, file_path, content, fail)
    ELSE BinaryUpdate(st, file_path, content, fail)

StorageDelete(part, st, file_path, fail) ==
    IF part = "text" THEN TextDelete(st, file_path, fail)
    ELSE BinaryDelete(st, file_path, fail)

StorageListFiles(part, st, fail) ==
    IF part = "text" THEN TextListFiles(st, fail) ELSE BinaryListFiles(st, fail)

(***************************************************************************)
(* Helpers of the routes (src/api/routes/storage_routes.py)                *)
(***************************************************************************)

NonEmpty(p) == p # <<>>

\* [p for p in path.strip("/").split("/") if p]
get_path_components(path) == SelectSeq(Split(Strip(path)), NonEmpty)

\* get_parent_path without the test for the root.
get_parent_path_NoRoot(path) ==
    LET components == get_path_components(path)
        parent_components == SubSeq(components, 1, Len(components) - 1)
    IN  IF parent_components = <<>> THEN <<>> ELSE Join(parent_components)

get_parent_path(path) ==
    LET components == get_path_components(path)
    IN  IF components = <<>> THEN NoneStr
        ELSE LET parent_components == SubSeq(components, 1, Len(components) - 1)
             IN  IF parent_components = <<>> THEN <<>>
                 ELSE Join(parent_components)

\* result[folder_path].append(name), on a dict held as a function.
DictAppend(result, folder_path, name) ==
    [f \in DOMAIN result \cup {folder_path} |->
        IF f = folder_path
        THEN (IF f \in DOMAIN result THEN result[f] ELSE <<>>) \o <<name>>
        ELSE result[f]]

RECURSIVE OrganizeLoop(_, _)
OrganizeLoop(result, files) ==
    IF files = <<>> THEN result
    ELSE LET components == get_path_components(Head(files))
             next ==
                 IF components = <<>> THEN result
                 ELSE IF Len(components) = 1
                 THEN DictAppend(result, <<>>, components[1])
                 ELSE DictAppend(result,
                                 Join(SubSeq(components, 1, Len(components) - 1)),
                                 components[Len(components)])
         IN  OrganizeLoop(next, Tail(files))

\* organize_files_into_folders leaving out a file under whose path another
\* file is stored.
organize_files_into_folders_Shadowed(files) ==
    LET Visible(f) ==
            ~\E i \in 1..Len(files) : StartsWith(files[i], f \o <<"/">>)
    IN  OrganizeLoop(<<>>, SelectSeq(files, Visible))

organize_files_into_folders(files) == OrganizeLoop(<<>>, files)

\* get_file_size taking the length of whatever get returned, None included.
get_file_size_NoCheck(part, st, file_path, failed) ==
    LET content == StorageGet(part, st, file_path,
                              (Prefix(part) \o file_path) \in failed)
    IN  IF part = "binary" THEN Len(content)
        ELSE Len(EncodeUtf8(content))

\* get_file_size: one get of the file; the gets of the keys in failed raise.
get_file_size(part, st, file_path, failed) ==
    LET content == StorageGet(part, st, file_path,
                              (Prefix(part) \o file_path) \in failed)
    IN  IF content = None \/ content = <<>> THEN 0
        ELSE IF part = "binary" THEN Len(content)
        ELSE Len(EncodeUtf8(content))

\* f"{current_path}/{name}" if current_path else name
ChildPath(current_path, name) ==
    IF current_path # <<>> THEN current_path \o <<"/">> \o name ELSE name

\* The FileInfo entries of one partition at current_path.
RECURSIVE FileInfos(_, _, _, _, _)
FileInfos(part, st, current_path, names, failed) ==
    IF names = <<>> THEN <<>>
    ELSE LET file_name == Head(names)
             file_path == ChildPath(current_path, file_name)
             size == get_file_size(part, st, file_path, failed)
         IN  <<[name |-> file_name, size |-> size, is_binary |-> (part = "binary")]>>
             \o FileInfos(part, st, current_path, Tail(names), failed)

InSeq(x, s) == \E i \in 1..Len(s) : s[i] = x

\* unique_folders held as a list: every name is appended, present or not.
SetAdd_Append(unique_folders, name) == Append(unique_folders, name)

\* unique_folders.add(name): the set is held in insertion order.
SetAdd(unique_folders, name) ==
    IF InSeq(name, unique_folders) THEN unique_folders
    ELSE Append(unique_folders, name)

\* extract_immediate_subfolders taking the next component of every path below
\* current_path, without testing that more components follow it.
RECURSIVE extract_immediate_subfolders_NoTest(_, _, _)
extract_immediate_subfolders_NoTest(unique_folders, folder_paths, current_path) ==
    IF folder_paths = <<>> THEN unique_folders
    ELSE LET folder_path == Head(folder_paths)
             next ==
                 IF current_path = <<>> /\ Contains(folder_path, "/")
                 THEN SetAdd(unique_folders, Split(folder_path)[1])
                 ELSE IF current_path # <<>>
                         /\ StartsWith(folder_path, current_path \o <<"/">>)
                 THEN SetAdd(unique_folders,
                             Split(SubSeq(folder_path, Len(current_path) + 2,
                                          Len(folder_path)))[1])
                 ELSE unique_folders
         IN  extract_immediate_subfolders_NoTest(next, Tail(folder_paths),
                                                 current_path)

RECURSIVE extract_immediate_subfolders(_, _, _)
extract_immediate_subfolders(unique_folders, folder_paths, current_path) ==
    IF folder_paths = <<>> THEN unique_folders
    ELSE LET folder_path == Head(folder_paths)
             next ==
                 IF current_path = <<>> /\ Contains(folder_path, "/")
                 THEN SetAdd(unique_folders, Split(folder_path)[1])
                 ELSE IF current_path # <<>>
                         /\ StartsWith(folder_path, current_path \o <<"/">>)
                 THEN LET remaining_path ==
                              SubSeq(folder_path, Len(current_path) + 2,
                                     Len(folder_path))
                      IN  IF Contains(remaining_path, "/")
                          THEN SetAdd(unique_folders, Split(remaining_path)[1])
                          ELSE unique_folders
                 ELSE unique_folders
         IN  extract_immediate_subfolders(next, Tail(folder_paths), current_path)

RECURSIVE FolderInfos(_, _)
FolderInfos(unique_folders, current_path) ==
    IF unique_folders = <<>> THEN <<>>
    ELSE <<[name |-> Head(unique_folders),
            path |-> ChildPath(current_path, Head(unique_folders))]>>
         \o FolderInfos(Tail(unique_folders), current_path)

\* ListingOf answering a path that names a stored file with that file.
ListingOf_FileAsDirectory(text_files, binary_files, st, path, failed) ==
    LET text_folders == organize_files_into_folders(text_files)
        binary_folders == organize_files_into_folders(binary_files)
        path_components == get_path_components(path)
        current_path == IF path_components # <<>> THEN Join(path_components)
                        ELSE <<>>
        text_infos ==
            IF current_path \in DOMAIN text_folders
            THEN FileInfos("text", st, current_path,
                           text_folders[current_path], failed)
            ELSE <<>>
        binary_infos ==
            IF current_path \in DOMAIN binary_folders
            THEN FileInfos("binary", st, current_path,
                           binary_folders[current_path], failed)
            ELSE <<>>
        unique_folders ==
            extract_immediate_subfolders(
                extract_immediate_subfolders(<<>>, text_files, current_path),
                binary_files, current_path)
    IN  [files |-> IF InSeq(current_path, text_files \o binary_files)
                   THEN <<[name |-> current_path, size |-> 0,
                           is_binary |-> FALSE]>>
                   ELSE text_infos \o binary_infos,
         folders |-> FolderInfos(unique_folders, current_path),
         current_path |-> current_path,
         parent_path |-> get_parent_path(current_path)]

\* list_storage, from the two enumerations to the response body.  text_files
\* and binary_files are what the two list_files calls returned; st is the
\* store the sizes are read from.
ListingOf(text_files, binary_files, st, path, failed) ==
    LET text_folders == organize_files_into_folders(text_files)
        binary_folders == organize_files_into_folders(binary_files)
        path_components == get_path_components(path)
        current_path == IF path_components # <<>> THEN Join(path_components)
                        ELSE <<>>
        text_infos ==
            IF current_path \in DOMAIN text_folders
            THEN FileInfos("text", st, current_path,
                           text_folders[current_path], failed)
            ELSE <<>>
        binary_infos ==
            IF current_path \in DOMAIN binary_folders
            THEN FileInfos("binary", st, current_path,
                           binary_folders[current_path], failed)
            ELSE <<>>
        unique_folders ==
            extract_immediate_subfolders(
                extract_immediate_subfolders(<<>>, text_files, current_path),
                binary_files, current_path)
    IN  [files |-> text_infos \o binary_infos,
         folders |-> FolderInfos(unique_folders, current_path),
         current_path |-> current_path,
         parent_path |-> get_parent_path(current_path)]

\* list_storage on one state of the store.
list_storage(st, path, failText, failBinary, failed) ==
    ListingOf(TextListFiles(st, failText), BinaryListFiles(st, failBinary),
              st, path, failed)

(***************************************************************************)
(* The file routes: get_file, create_file, delete_file and upload_file     *)
(* (src/api/routes/storage_routes.py), with the library calls they make.   *)
(***************************************************************************)

\* str.lower on the letters that file names are written with.
LowerChar(ch) ==
    CASE ch = "G" -> "g" [] ch = "N" -> "n" [] ch = "P" -> "p"
      [] ch = "T" -> "t" [] ch = "X" -> "x" [] OTHER -> ch

Lower(s) == [i \in 1..Len(s) |-> LowerChar(s[i])]

\* The index of the last ch of s, 0 when s has none.
LastIndex(s, ch) ==
    IF Contains(s, ch)
    THEN CHOOSE i \in 1..Len(s) :
            s[i] = ch /\ \A j \in (i + 1)..Len(s) : s[j] # ch
    ELSE 0

\* os.path.basename: what follows the last slash.
Basename(p) == SubSeq(p, LastIndex(p, "/") + 1, Len(p))

\* os.path.splitext(p)[1]: from the last dot of the basename on, unless only
\* dots precede it there; the empty string when there is no such dot.
SplitExt(p) ==
    LET name == Basename(p)
        dot == LastIndex(name, ".")
    IN  IF dot = 0 \/ \A i \in 1..dot : name[i] = "." THEN <<>>
        ELSE SubSeq(name, dot, Len(name))

get_mime_type(file_path) ==
    LET ext == SplitExt(Lower(file_path))
    IN  CASE ext = <<".", "t", "x", "t">> -> "text/plain"
      [] ext = <<".", "j", "s", "o", "n">> -> "application/json"
      [] ext = <<".", "m", "d">> -> "text/markdown"
      [] ext = <<".", "j", "p", "g">> -> "image/jpeg"
      [] ext = <<".", "j", "p", "e", "g">> -> "image/jpeg"
      [] ext = <<".", "p", "n", "g">> -> "image/png"
      [] ext = <<".", "g", "i", "f">> -> "image/gif"
      [] ext = <<".", "s", "v", "g">> -> "image/svg+xml"
      [] ext = <<".", "h", "t", "m", "l">> -> "text/html"
      [] ext = <<".", "c", "s", "s">> -> "text/css"
      [] ext = <<".", "j", "s">> -> "application/javascript"
      [] ext = <<".", "p", "y">> -> "text/x-python"
      [] OTHER -> "application/octet-stream"

\* The allowlist with .txt among the binary extensions.
binary_extensions_WithTxt ==
    { <<".", "j", "p", "g">>,
      <<".", "j", "p", "e", "g">>,
      <<".", "p", "n", "g">>,
      <<".", "g", "i", "f">>,
      <<".", "s", "v", "g">>,
      <<".", "p", "d", "f">>,
      <<".", "z", "i", "p">>,
      <<".", "g", "z">>,
      <<".", "b", "i", "n">>,
      <<".", "t", "x", "t">> }

binary_extensions ==
    { <<".", "j", "p", "g">>,
      <<".", "j", "p", "e", "g">>,
      <<".", "p", "n", "g">>,
      <<".", "g", "i", "f">>,
      <<".", "s", "v", "g">>,
      <<".", "p", "d", "f">>,
      <<".", "z", "i", "p">>,
      <<".", "g", "z">>,
      <<".", "b", "i", "n">> }

is_binary_file(file_path) == SplitExt(Lower(file_path)) \in binary_extensions

\* What base64.b64decode raises instead of returning bytes.
B64Error == <<-2>>

Base64Alphabet ==
    << "A", "B", "C", "D", "E", "F", "G", "H", "I", "J", "K", "L", "M",
       "N", "O", "P", "Q", "R", "S", "T", "U", "V", "W", "X", "Y", "Z",
       "a", "b", "c", "d", "e", "f", "g", "h", "i", "j", "k", "l", "m",
       "n", "o", "p", "q", "r", "s", "t", "u", "v", "w", "x", "y", "z",
       "0", "1", "2", "3", "4", "5", "6", "7", "8", "9", "+", "/" >>

\* The six bits of a base64 character, 64 for a character outside the alphabet.
B64Value(ch) ==
    IF \E i \in 1..64 : Base64Alphabet[i] = ch
    THEN (CHOOSE i \in 1..64 : Base64Alphabet[i] = ch) - 1
    ELSE 64

\* binascii.a2b_base64 without strict mode: characters outside the alphabet
\* are skipped, a pad that completes a quad ends the data, and data that
\* ends inside a quad is an error.
RECURSIVE a2b_base64(_, _, _, _, _)
a2b_base64(data, quad_pos, leftchar, pads, out) ==
    IF data = <<>> THEN (IF quad_pos # 0 THEN B64Error ELSE out)
    ELSE LET this_ch == Head(data)
             v == B64Value(this_ch)
         IN  IF this_ch = "="
             THEN IF quad_pos >= 2 /\ quad_pos + pads + 1 >= 4 THEN out
                  ELSE a2b_base64(Tail(data), quad_pos, leftchar,
                                  IF quad_pos >= 2 THEN pads + 1 ELSE pads, out)
             ELSE IF v >= 64
             THEN a2b_base64(Tail(data), quad_pos, leftchar, pads, out)
             ELSE CASE quad_pos = 0 ->
                         a2b_base64(Tail(data), 1, v, 0, out)
                    [] quad_pos = 1 ->
                         a2b_base64(Tail(data), 2, v % 16, 0,
                                    Append(out, leftchar * 4 + v \div 16))
                    [] quad_pos = 2 ->
                         a2b_base64(Tail(data), 3, v % 4, 0,
                                    Append(out, leftchar * 16 + v \div 4))
                    [] OTHER ->
                         a2b_base64(Tail(data), 0, 0, 0,
                                    Append(out, leftchar * 64 + v))

\* base64.b64decode(content): the decoded bytes, or B64Error.
b64decode(content) == a2b_base64(content, 0, 0, 0, <<>>)

\* str(e) of the exception b64decode raised: the data ended one character
\* into a quad, or later in it (the count the first text carries is left out).
b64_error_text(content) ==
    IF Cardinality({ i \in 1..Len(content) : B64Value(content[i]) < 64 }) % 4 = 1
    THEN "Invalid base64-encoded string: number of data characters cannot be 1 more than a multiple of 4"
    ELSE "Incorrect padding"

\* create_file sending a path of the extension allowlist to the binary
\* partition although is_binary is false.
create_file_ByExtension(st, path, content, is_binary, fail) ==
    IF is_binary
    THEN LET binary_content == b64decode(content)
         IN  IF binary_content = B64Error
             THEN [status |-> 400,
                   detail |-> <<"Invalid base64 encoding: ",
                                b64_error_text(content)>>,
                   store |-> st]
             ELSE LET r == BinaryCreate(st, path, binary_content, fail)
                  IN  IF ~r.ok
                      THEN [status |-> 500, detail |-> <<"Failed to create file">>,
                            store |-> r.store]
                      ELSE [status |-> 200, detail |-> <<>>, store |-> r.store]
    ELSE LET r == IF is_binary_file(path)
                  THEN BinaryCreate(st, path, EncodeUtf8(content), fail)
                  ELSE TextCreate(st, path, content, fail)
         IN  IF ~r.ok
             THEN [status |-> 500, detail |-> <<"Failed to create file">>,
                   store |-> r.store]
             ELSE [status |-> 200, detail |-> <<>>, store |-> r.store]

\* create_file: the status and detail of the answer and the store it leaves.
\* content is the base64 text when is_binary, the text itself otherwise.
create_file(st, path, content, is_binary, fail) ==
    IF is_binary
    THEN LET binary_content == b64decode(content)
         IN  IF binary_content = B64Error
             THEN [status |-> 400,
                   detail |-> <<"Invalid base64 encoding: ",
                                b64_error_text(content)>>,
                   store |-> st]
             ELSE LET r == BinaryCreate(st, path, binary_content, fail)
                  IN  IF ~r.ok
                      THEN [status |-> 500, detail |-> <<"Failed to create file">>,
                            store |-> r.store]
                      ELSE [status |-> 200, detail |-> <<>>, store |-> r.store]
    ELSE LET r == TextCreate(st, path, content, fail)
         IN  IF ~r.ok
             THEN [status |-> 500, detail |-> <<"Failed to create file">>,
                   store |-> r.store]
             ELSE [status |-> 200, detail |-> <<>>, store |-> r.store]

\* get_file answering from the other partition when the chosen one has no
\* content.
get_file_AnyPartition(st, path, binary, fail) ==
    IF path = NoneStr
    THEN [status |-> 400, body |-> <<"Path parameter is required">>]
    ELSE LET content ==
                 IF BinaryGet(st, path, fail) # None
                 THEN BinaryGet(st, path, fail)
                 ELSE TextGet(st, path, fail)
         IN  IF content = None
             THEN [status |-> 404, body |-> <<"File not found: ", path>>]
             ELSE [status |-> 200,
                   body |-> [content |-> content,
                             media_type |-> get_mime_type(path)]]

\* get_file: the status of the answer and its body, the detail on an error.
get_file(st, path, binary, fail) ==
    IF path = NoneStr
    THEN [status |-> 400, body |-> <<"Path parameter is required">>]
    ELSE IF binary
    THEN LET content == BinaryGet(st, path, fail)
         IN  IF content = None
             THEN [status |-> 404, body |-> <<"File not found: ", path>>]
             ELSE [status |-> 200,
                   body |-> [content |-> content,
                             media_type |-> get_mime_type(path)]]
    ELSE LET content == TextGet(st, path, fail)
         IN  IF content = None
             THEN [status |-> 404, body |-> <<"File not found: ", path>>]
             ELSE [status |-> 200,
                   body |-> [name |-> Basename(path),
                             content |-> content,
                             mime_type |-> get_mime_type(path),
                             is_binary |-> binary,
                             size |-> IF content # <<>>
                                      THEN Len(EncodeUtf8(content)) ELSE 0]]

\* delete_file answering success whatever delete returned.
delete_file_AlwaysSuccess(st, path, is_binary, fail) ==
    LET r == IF is_binary THEN BinaryDelete(st, path, fail)
             ELSE TextDelete(st, path, fail)
    IN  [status |-> 200, detail |-> <<>>, store |-> r.store]

\* delete_file: the HTTPException raised for a False result is caught by the
\* route's own except clause and wrapped.
delete_file(st, path, is_binary, fail) ==
    LET r == IF is_binary THEN BinaryDelete(st, path, fail)
             ELSE TextDelete(st, path, fail)
    IN  IF ~r.ok
        THEN [status |-> 500,
              detail |-> <<"Error deleting file: ", "500: Failed to delete file">>,
              store |-> r.store]
        ELSE [status |-> 200, detail |-> <<>>, store |-> r.store]

\* The content-type prefixes upload_file takes for text.
text_content_types ==
    { <<"t", "e", "x", "t", "/">>,
      <<"a", "p", "p", "l", "i", "c", "a", "t", "i", "o", "n", "/", "j", "s", "o", "n">> }

\* upload_file trying the UTF-8 decoding before the other two checks.
upload_file_DecodeFirst(st, path, filename, content_type, content, fail) ==
    LET full_path == IF path # <<>> THEN path \o <<"/">> \o filename
                     ELSE filename
    IN  IF content_type = NoneStr
        THEN [status |-> 500,
              detail |-> <<"Error uploading file: ",
                           "'NoneType' object has no attribute 'startswith'">>,
              store |-> st]
        ELSE LET text_content == DecodeUtf8(content)
                 r == IF text_content # None
                      THEN TextCreate(st, full_path, text_content, fail)
                      ELSE BinaryCreate(st, full_path, content, fail)
             IN  IF ~r.ok
                 THEN [status |-> 500,
                       detail |-> <<"Error uploading file: ",
                                    "500: Failed to upload file">>,
                       store |-> r.store]
                 ELSE [status |-> 200, detail |-> <<>>, store |-> r.store]

\* upload_file: the status and detail of the answer and the store it leaves.
\* content_type is NoneStr when the part came without one.
upload_file(st, path, filename, content_type, content, fail) ==
    LET full_path == IF path # <<>> THEN path \o <<"/">> \o filename
                     ELSE filename
    IN  IF content_type = NoneStr
        THEN [status |-> 500,
              detail |-> <<"Error uploading file: ",
                           "'NoneType' object has no attribute 'startswith'">>,
              store |-> st]
        ELSE LET file_binary ==
                     IF \E t \in text_content_types : StartsWith(content_type, t)
                     THEN is_binary_file(filename)
                     ELSE TRUE
                 text_content == DecodeUtf8(content)
                 r == IF file_binary
                      THEN BinaryCreate(st, full_path, content, fail)
                      ELSE IF text_content # None
                      THEN TextCreate(st, full_path, text_content, fail)
                      ELSE BinaryCreate(st, full_path, content, fail)
             IN  IF ~r.ok
                 THEN [status |-> 500,
                       detail |-> <<"Error uploading file: ",
                                    "500: Failed to upload file">>,
                       store |-> r.store]
                 ELSE [status |-> 200, detail |-> <<>>, store |-> r.store]

(***************************************************************************)
(* The state machine: one action per operation of the services and per     *)
(* route.  resp is the answer of the last call.                            *)
(***************************************************************************)

\* No list request is in flight.
Idle == [pc |-> "idle"]

\* The clients that write one key at the same time, and a client with no
\* call in flight.
MaxWriters == 2

Clients == 1..MaxWriters

NoCall == [pc |-> "idle"]

Init ==
    /\ store = <<>>
    /\ resp = [op |-> "init"]
    /\ req = Idle
    /\ writes = [c \in Clients |-> NoCall]

\* The backend has room for the write of key.
HasRoom(key) == key \in DOMAIN store \/ Cardinality(DOMAIN store) < MaxKeys

Create(part, file_path, content, fail) ==
    /\ HasRoom(Prefix(part) \o file_path)
    /\ LET r == StorageCreate(part, store, file_path, content, fail)
       IN  /\ store' = r.store
           /\ resp' = [op |-> "create", ok |-> r.ok]
           /\ UNCHANGED <<req, writes>>

Update(part, file_path, content, fail) ==
    /\ HasRoom(Prefix(part) \o file_path)
    /\ LET r == StorageUpdate(part, store, file_path, content, fail)
       IN  /\ store' = r.store
           /\ resp' = [op |-> "update", ok |-> r.ok]
           /\ UNCHANGED <<req, writes>>

Delete(part, file_path, fail) ==
    LET r == StorageDelete(part, store, file_path, fail)
    IN  /\ store' = r.store
        /\ resp' = [op |-> "delete", ok |-> r.ok]
        /\ UNCHANGED <<req, writes>>

Get(part, file_path, fail) ==
    /\ resp' = [op |-> "get", value |-> StorageGet(part, store, file_path, fail)]
    /\ UNCHANGED <<store, req, writes>>

ListFiles(part, fail) ==
    /\ resp' = [op |-> "list_files",
                value |-> StorageListFiles(part, store, fail)]
    /\ UNCHANGED <<store, req, writes>>

\* The backend failures one list request may meet: none, either or both of
\* the enumerations, the size fetch of one key, or every size fetch.
Faults(st) ==
    { [text |-> t, binary |-> b, gets |-> {}] : t \in BOOLEAN, b \in BOOLEAN }
    \cup { [text |-> FALSE, binary |-> FALSE, gets |-> {k}] : k \in DOMAIN st }
    \cup { [text |-> FALSE, binary |-> FALSE, gets |-> DOMAIN st] }

NoFault == [text |-> FALSE, binary |-> FALSE, gets |-> {}]

ListStorage(path, fault) ==
    /\ resp' = [op |-> "list", status |-> 200,
                body |-> list_storage(store, path, fault.text, fault.binary,
                                      fault.gets)]
    /\ UNCHANGED <<store, req, writes>>

\* The storage services, called directly.
Next ==
    \/ \E part \in Partitions, file_path \in ServicePaths, fail \in BOOLEAN :
          \E content \in Contents(part) : Create(part, file_path, content, fail)
    \/ \E part \in Partitions, file_path \in ServicePaths, fail \in BOOLEAN :
          \E content \in Contents(part) : Update(part, file_path, content, fail)
    \/ \E part \in Partitions, file_path \in ServicePaths, fail \in BOOLEAN :
          Delete(part, file_path, fail)
    \/ \E part \in Partitions, file_path \in ServicePaths, fail \in BOOLEAN :
          Get(part, file_path, fail)
    \/ \E part \in Partitions, fail \in BOOLEAN : ListFiles(part, fail)

Spec == Init /\ [][Next]_vars

\* The contents the listed files are written with.
ListedContent(part) == IF part = "text" THEN <<233>> ELSE <<255>>

\* The listing route over a store that creates and deletes fill and empty.
NextRoutes ==
    \/ \E part \in Partitions, file_path \in FilePaths :
          Create(part, file_path, ListedContent(part), FALSE)
    \/ \E part \in Partitions, file_path \in FilePaths :
          Delete(part, file_path, FALSE)
    \/ \E path \in Dirs : \E fault \in Faults(store) : ListStorage(path, fault)

SpecRoutes == Init /\ [][NextRoutes]_vars

\* The paths the file routes are called with.
RoutePaths == { <<"b">>, <<"x", ".", "p", "n", "g">> }

\* The base64 texts create_file is sent: A, the byte 255, a text that is
\* no base64, and the base64 of A with a character outside the alphabet.
Base64Contents ==
    { <<"Q", "Q", "=", "=">>,
      <<"/", "w", "=", "=">>,
      <<"n", "o", "t", "-", "b", "a", "s", "e", "6", "4", "!", "!">>,
      <<"Q", "!", "Q", "=", "=">> }

\* The uploads: file names, target directories, declared content types
\* (NoneStr for none) and bytes, one valid UTF-8 and one not.
UploadNames == { <<"p", "h", "o", "t", "o", ".", "p", "n", "g">>,
                 <<"n", "o", "t", "e", "s", ".", "t", "x", "t">> }

UploadDirs == { <<>>, <<"a">> }

ContentTypes ==
    { <<"a", "p", "p", "l", "i", "c", "a", "t", "i", "o", "n", "/", "o", "c", "t", "e", "t", "-", "s", "t", "r", "e", "a", "m">>,
      <<"t", "e", "x", "t", "/", "p", "l", "a", "i", "n">>,
      <<"a", "p", "p", "l", "i", "c", "a", "t", "i", "o", "n", "/", "j", "s", "o", "n">>,
      NoneStr }

UploadContents == { <<65>>, <<255>> }

\* The texts of the exceptions the backend client may raise when a storage
\* service is constructed.
ClientErrors == { "Unauthorized", "Connection refused" }

\* What each route puts before str(e) in the detail of its 500 answer.
ErrorPrefix(route) ==
    CASE route = "get_file" -> "Error getting file: "
      [] route = "create_file" -> "Error creating file: "
      [] route = "delete_file" -> "Error deleting file: "
      [] route = "upload_file" -> "Error uploading file: "
      [] OTHER -> "Error listing storage: "

\* A route called while the construction of its storage service raises e:
\* the route's except clause answers 500 with str(e) in the detail.
StorageInitFails(route, e) ==
    /\ resp' = [op |-> route, status |-> 500,
                body |-> <<ErrorPrefix(route), e>>]
    /\ UNCHANGED <<store, req, writes>>

CreateFile(path, content, is_binary, fail) ==
    LET r == create_file(store, path, content, is_binary, fail)
    IN  /\ Cardinality(DOMAIN r.store) <= MaxKeys
        /\ store' = r.store
        /\ resp' = [op |-> "create_file", status |-> r.status, body |-> r.detail]
        /\ UNCHANGED <<req, writes>>

GetFile(path, binary, fail) ==
    LET r == get_file(store, path, binary, fail)
    IN  /\ resp' = [op |-> "get_file", status |-> r.status, body |-> r.body]
        /\ UNCHANGED <<store, req, writes>>

DeleteFile(path, is_binary, fail) ==
    LET r == delete_file(store, path, is_binary, fail)
    IN  /\ store' = r.store
        /\ resp' = [op |-> "delete_file", status |-> r.status, body |-> r.detail]
        /\ UNCHANGED <<req, writes>>

UploadFile(path, filename, content_type, content, fail) ==
    LET r == upload_file(store, path, filename, content_type, content, fail)
    IN  /\ Cardinality(DOMAIN r.store) <= MaxKeys
        /\ store' = r.store
        /\ resp' = [op |-> "upload_file", status |-> r.status, body |-> r.detail]
        /\ UNCHANGED <<req, writes>>

\* The routes that create, read and delete one file.
NextFiles ==
    \/ \E path \in RoutePaths, content \in TextContents, fail \in BOOLEAN :
          CreateFile(path, content, FALSE, fail)
    \/ \E path \in RoutePaths, content \in Base64Contents, fail \in BOOLEAN :
          CreateFile(path, content, TRUE, fail)
    \/ \E path \in RoutePaths \cup {NoneStr}, binary \in BOOLEAN, fail \in BOOLEAN :
          GetFile(path, binary, fail)
    \/ \E path \in RoutePaths, is_binary \in BOOLEAN, fail \in BOOLEAN :
          DeleteFile(path, is_binary, fail)
    \/ \E route \in {"get_file", "create_file", "delete_file"},
          e \in ClientErrors :
          StorageInitFails(route, e)

SpecFiles == Init /\ [][NextFiles]_vars

\* The upload route, and deletes of what it stored.
NextUpload ==
    \/ \E path \in UploadDirs, filename \in UploadNames,
          content_type \in ContentTypes, content \in UploadContents,
          fail \in BOOLEAN :
          UploadFile(path, filename, content_type, content, fail)
    \/ \E path \in UploadDirs, filename \in UploadNames, is_binary \in BOOLEAN :
          DeleteFile(ChildPath(path, filename), is_binary, FALSE)

SpecUpload == Init /\ [][NextUpload]_vars

(***************************************************************************)
(* One list request, backend call by backend call, while other clients of  *)
(* the bucket write to it.  req holds the request's local variables: the   *)
(* two enumerations, the files still to be sized, the entries sized so     *)
(* far; lists counts its client.list() calls and snap is the store as it   *)
(* was at the first of them.                                               *)
(***************************************************************************)

\* The paths the concurrent clients write, and the directories listed.
ConcPaths == { <<"b">>, <<"a", "/", "b">> }

ConcDirs == { <<>>, <<"a">> }

\* Another client's create: its answer goes to that client.
ConcurrentCreate(part, file_path) ==
    /\ HasRoom(Prefix(part) \o file_path)
    /\ store' = StorageCreate(part, store, file_path, ListedContent(part),
                              FALSE).store
    /\ UNCHANGED <<resp, req, writes>>

\* Another client's delete.
ConcurrentDelete(part, file_path) ==
    /\ (Prefix(part) \o file_path) \in DOMAIN store
    /\ store' = StorageDelete(part, store, file_path, FALSE).store
    /\ UNCHANGED <<resp, req, writes>>

\* The names of one partition's enumeration that lie at current_path, as the
\* entries still to be sized.
RECURSIVE ToSize(_, _)
ToSize(part, names) ==
    IF names = <<>> THEN <<>>
    ELSE <<[part |-> part, name |-> Head(names)]>> \o ToSize(part, Tail(names))

FilesAt(part, files, current_path) ==
    LET folders == organize_files_into_folders(files)
    IN  IF current_path \in DOMAIN folders
        THEN ToSize(part, folders[current_path])
        ELSE <<>>

\* The request arrives and text_storage.list_files() runs.
ListTextFiles(path, fail) ==
    /\ req.pc = "idle"
    /\ req' = [pc |-> "text_listed",
               path |-> path,
               text_files |-> TextListFiles(store, fail),
               lists |-> 1,
               snap |-> store]
    /\ resp' = [op |-> "list", status |-> 0]
    /\ UNCHANGED <<store, writes>>

\* binary_storage.list_files() taken from the store as it was when the text
\* files were enumerated.
ListBinaryFiles_FromSnapshot(fail) ==
    /\ req.pc = "text_listed"
    /\ LET binary_files == BinaryListFiles(req.snap, fail)
           path_components == get_path_components(req.path)
           current_path == IF path_components # <<>> THEN Join(path_components)
                           ELSE <<>>
       IN  req' = [pc |-> "binary_listed",
                   path |-> req.path,
                   text_files |-> req.text_files,
                   binary_files |-> binary_files,
                   lists |-> req.lists,
                   snap |-> req.snap,
                   current_path |-> current_path,
                   todo |-> FilesAt("text", req.text_files, current_path)
                            \o FilesAt("binary", binary_files, current_path),
                   files_info |-> <<>>]
    /\ UNCHANGED <<store, resp, writes>>

\* binary_storage.list_files() runs, and the files at the path are picked.
ListBinaryFiles(fail) ==
    /\ req.pc = "text_listed"
    /\ LET binary_files == BinaryListFiles(store, fail)
           path_components == get_path_components(req.path)
           current_path == IF path_components # <<>> THEN Join(path_components)
                           ELSE <<>>
       IN  req' = [pc |-> "binary_listed",
                   path |-> req.path,
                   text_files |-> req.text_files,
                   binary_files |-> binary_files,
                   lists |-> req.lists + 1,
                   snap |-> req.snap,
                   current_path |-> current_path,
                   todo |-> FilesAt("text", req.text_files, current_path)
                            \o FilesAt("binary", binary_files, current_path),
                   files_info |-> <<>>]
    /\ UNCHANGED <<store, resp, writes>>

\* get_file_size of the next file, and its FileInfo appended.
FetchSize(fail) ==
    /\ req.pc = "binary_listed"
    /\ req.todo # <<>>
    /\ LET next == Head(req.todo)
           file_path == ChildPath(req.current_path, next.name)
           size == get_file_size(next.part, store, file_path,
                                 IF fail THEN {Prefix(next.part) \o file_path}
                                 ELSE {})
       IN  req' = [req EXCEPT
                     !.todo = Tail(req.todo),
                     !.files_info =
                         Append(req.files_info,
                                [name |-> next.name, size |-> size,
                                 is_binary |-> (next.part = "binary")])]
    /\ UNCHANGED <<store, resp, writes>>

\* The folders are taken from the two enumerations and the answer is sent.
ListRespond ==
    /\ req.pc = "binary_listed"
    /\ req.todo = <<>>
    /\ LET unique_folders ==
               extract_immediate_subfolders(
                   extract_immediate_subfolders(<<>>, req.text_files,
                                                req.current_path),
                   req.binary_files, req.current_path)
       IN  resp' = [op |-> "list", status |-> 200,
                    body |-> [files |-> req.files_info,
                              folders |-> FolderInfos(unique_folders,
                                                      req.current_path),
                              current_path |-> req.current_path,
                              parent_path |-> get_parent_path(req.current_path)]]
    /\ req' = Idle
    /\ UNCHANGED <<store, writes>>

NextConc ==
    \/ \E part \in Partitions, file_path \in ConcPaths :
          ConcurrentCreate(part, file_path)
    \/ \E part \in Partitions, file_path \in ConcPaths :
          ConcurrentDelete(part, file_path)
    \/ \E path \in ConcDirs, fail \in BOOLEAN : ListTextFiles(path, fail)
    \/ \E fail \in BOOLEAN : ListBinaryFiles(fail)
    \/ \E fail \in BOOLEAN : FetchSize(fail)
    \/ ListRespond

SpecConc == Init /\ [][NextConc]_vars

(***************************************************************************)
(* Several clients creating and updating one key at the same time.  A      *)
(* call is in flight from the moment the client made it until the backend  *)
(* applied its upload; the backend applies the uploads one at a time, in   *)
(* any order.                                                              *)
(***************************************************************************)

\* The path the clients write.
WritePath == <<"b">>

\* A client calls create or update; nothing has reached the backend yet.
WriteCall(c, op, part, content) ==
    /\ writes[c].pc = "idle"
    /\ writes' = [writes EXCEPT
                    ![c] = [pc |-> "called", op |-> op, part |-> part,
                            content |-> content]]
    /\ UNCHANGED <<store, resp, req>>

\* The backend keeping the content a key already has.
WriteApply_FirstWins(c, fail) ==
    /\ writes[c].pc = "called"
    /\ LET w == writes[c]
           r == IF (Prefix(w.part) \o WritePath) \in DOMAIN store
                THEN [ok |-> ~fail, store |-> store]
                ELSE StorageCreate(w.part, store, WritePath, w.content, fail)
       IN  /\ store' = r.store
           /\ resp' = [op |-> w.op, ok |-> r.ok]
    /\ writes' = [writes EXCEPT ![c] = NoCall]
    /\ UNCHANGED req

\* The backend applies the upload of a call in flight, or fails it, and the
\* call returns.
WriteApply(c, fail) ==
    /\ writes[c].pc = "called"
    /\ LET w == writes[c]
           r == IF w.op = "create"
                THEN StorageCreate(w.part, store, WritePath, w.content, fail)
                ELSE StorageUpdate(w.part, store, WritePath, w.content, fail)
       IN  /\ store' = r.store
           /\ resp' = [op |-> w.op, ok |-> r.ok]
    /\ writes' = [writes EXCEPT ![c] = NoCall]
    /\ UNCHANGED req

NextWriters ==
    \/ \E c \in Clients, op \in {"create", "update"}, part \in Partitions :
          \E content \in Contents(part) : WriteCall(c, op, part, content)
    \/ \E c \in Clients, fail \in BOOLEAN : WriteApply(c, fail)
    \/ \E part \in Partitions : Get(part, WritePath, FALSE)

SpecWriters == Init /\ [][NextWriters]_vars

(***************************************************************************)
(* The JSON methods of StorageTextFile, with json.dumps(data, indent=2)    *)
(* and json.loads as the standard library computes them.  A Python value   *)
(* is a record whose one field is named after its type: none, a bool, an   *)
(* int, a str (a sequence of code points), a list (a sequence of values)   *)
(* or a dict (a sequence of <<key, value>> pairs in insertion order, no    *)
(* key twice).                                                             *)
(* Strings hold printable ASCII without quote or backslash, so that        *)
(* neither side escapes; numbers are non-negative integers.                *)
(***************************************************************************)

PyNone == [none |-> 0]

PyBool(b) == [bool |-> b]

PyInt(n) == [int |-> n]

PyStr(s) == [str |-> s]

PyList(items) == [list |-> items]

PyDict(members) == [dict |-> members]

\* type(v).__name__
TypeOf(v) == CHOOSE name \in DOMAIN v : TRUE

\* The text of the three JSON literals.
NullText == <<110, 117, 108, 108>>

TrueText == <<116, 114, 117, 101>>

FalseText == <<102, 97, 108, 115, 101>>

\* str(n) for n >= 0, as code points.
RECURSIVE Digits(_)
Digits(n) == IF n < 10 THEN <<48 + n>> ELSE Digits(n \div 10) \o <<48 + (n % 10)>>

\* The indentation of one nesting level under indent=2.
Indent(level) == [i \in 1..(2 * level) |-> 32]

\* A dict key as json.dumps writes it: a str as it is, an int as its decimal
\* text, both quoted.
KeyText(k) ==
    IF TypeOf(k) = "int" THEN <<34>> \o Digits(k.int) \o <<34>>
    ELSE <<34>> \o k.str \o <<34>>

RECURSIVE Dumps(_, _)
RECURSIVE DumpItems(_, _)
RECURSIVE DumpMembers(_, _)

\* json.dumps(v, indent=2) at a nesting level: every item and member on a
\* line of its own, "," between them, ": " after a key, [] and {} for the
\* empty containers.
Dumps(v, level) ==
    CASE TypeOf(v) = "none" -> NullText
      [] TypeOf(v) = "bool" -> IF v.bool THEN TrueText ELSE FalseText
      [] TypeOf(v) = "int" -> Digits(v.int)
      [] TypeOf(v) = "str" -> <<34>> \o v.str \o <<34>>
      [] TypeOf(v) = "list" ->
            IF v.list = <<>> THEN <<91, 93>>
            ELSE <<91, 10>> \o DumpItems(v.list, level + 1)
                     \o <<10>> \o Indent(level) \o <<93>>
      [] TypeOf(v) = "dict" ->
            IF v.dict = <<>> THEN <<123, 125>>
            ELSE <<123, 10>> \o DumpMembers(v.dict, level + 1)
                     \o <<10>> \o Indent(level) \o <<125>>

DumpItems(items, level) ==
    Indent(level) \o Dumps(Head(items), level)
        \o (IF Tail(items) = <<>> THEN <<>>
            ELSE <<44, 10>> \o DumpItems(Tail(items), level))

DumpMembers(members, level) ==
    Indent(level) \o KeyText(Head(members)[1]) \o <<58, 32>>
        \o Dumps(Head(members)[2], level)
        \o (IF Tail(members) = <<>> THEN <<>>
            ELSE <<44, 10>> \o DumpMembers(Tail(members), level))

\* The text without the first n code points.
Drop(s, n) == SubSeq(s, n + 1, Len(s))

\* The whitespace json.loads skips: space, tab, line feed, carriage return.
RECURSIVE SkipWs(_)
SkipWs(s) ==
    IF s # <<>> /\ s[1] \in {32, 9, 10, 13} THEN SkipWs(Tail(s)) ELSE s

\* The answer of a parsing step that raised JSONDecodeError.
ParseError == [ok |-> FALSE, v |-> PyNone, rest |-> <<>>]

Parsed(v, rest) == [ok |-> TRUE, v |-> v, rest |-> rest]

\* The number of leading decimal digits of a text.
RECURSIVE DigitRun(_)
DigitRun(s) ==
    IF s # <<>> /\ s[1] \in 48..57 THEN 1 + DigitRun(Tail(s)) ELSE 0

\* int() of a text of decimal digits.
RECURSIVE ToInt(_)
ToInt(s) ==
    IF s = <<>> THEN 0
    ELSE 10 * ToInt(SubSeq(s, 1, Len(s) - 1)) + (s[Len(s)] - 48)

\* A number: 0, or a digit run that does not start with 0.
ParseNumber(s) ==
    IF s[1] = 48 THEN Parsed(PyInt(0), Tail(s))
    ELSE LET n == DigitRun(s)
         IN  Parsed(PyInt(ToInt(SubSeq(s, 1, n))), Drop(s, n))

\* A string, from the code point after its opening quote: everything up to
\* the closing quote, none of it a control character.
ParseString(s) ==
    LET closing == {i \in 1..Len(s) : s[i] = 34}
    IN  IF closing = {} THEN ParseError
        ELSE LET end == CHOOSE i \in closing : \A j \in closing : i <= j
                 body == SubSeq(s, 1, end - 1)
             IN  IF \E i \in 1..Len(body) : body[i] < 32 \/ body[i] = 92
                 THEN ParseError
                 ELSE Parsed(PyStr(body), Drop(s, end))

RECURSIVE ParseValue(_)
RECURSIVE ParseItems(_, _)
RECURSIVE ParseMembers(_, _)

\* One JSON value at the start of a text, after whitespace.
ParseValue(text) ==
    LET s == SkipWs(text)
    IN  IF s = <<>> THEN ParseError
        ELSE IF StartsWith(s, NullText) THEN Parsed(PyNone, Drop(s, 4))
        ELSE IF StartsWith(s, TrueText) THEN Parsed(PyBool(TRUE), Drop(s, 4))
        ELSE IF StartsWith(s, FalseText) THEN Parsed(PyBool(FALSE), Drop(s, 5))
        ELSE IF s[1] \in 48..57 THEN ParseNumber(s)
        ELSE IF s[1] = 34 THEN ParseString(Tail(s))
        ELSE IF s[1] = 91
             THEN LET r == SkipWs(Tail(s))
                  IN  IF r # <<>> /\ r[1] = 93 THEN Parsed(PyList(<<>>), Tail(r))
                      ELSE ParseItems(r, <<>>)
        ELSE IF s[1] = 123
             THEN LET r == SkipWs(Tail(s))
                  IN  IF r # <<>> /\ r[1] = 125 THEN Parsed(PyDict(<<>>), Tail(r))
                      ELSE ParseMembers(r, <<>>)
        ELSE ParseError

\* The items of a list after "[", up to and with its "]".
ParseItems(text, acc) ==
    LET item == ParseValue(text)
        s == SkipWs(item.rest)
    IN  IF ~item.ok \/ s = <<>> THEN ParseError
        ELSE IF s[1] = 44 THEN ParseItems(Tail(s), Append(acc, item.v))
        ELSE IF s[1] = 93 THEN Parsed(PyList(Append(acc, item.v)), Tail(s))
        ELSE ParseError

\* The members of an object after "{", up to and with its "}".
ParseMembers(text, acc) ==
    LET s == SkipWs(text)
    IN  IF s = <<>> \/ s[1] # 34 THEN ParseError
        ELSE LET key == ParseString(Tail(s))
                 colon == SkipWs(key.rest)
             IN  IF ~key.ok \/ colon = <<>> \/ colon[1] # 58 THEN ParseError
                 ELSE LET value == ParseValue(Tail(colon))
                          t == SkipWs(value.rest)
                          members == Append(acc, <<key.v, value.v>>)
                      IN  IF ~value.ok \/ t = <<>> THEN ParseError
                          ELSE IF t[1] = 44 THEN ParseMembers(Tail(t), members)
                          ELSE IF t[1] = 125 THEN Parsed(PyDict(members), Tail(t))
                          ELSE ParseError

\* json.loads: one value and nothing but whitespace after it; ok is FALSE
\* where it raises JSONDecodeError.
Loads(text) ==
    LET r == ParseValue(text)
    IN  IF r.ok /\ SkipWs(r.rest) = <<>> THEN [ok |-> TRUE, v |-> r.v]
        ELSE [ok |-> FALSE, v |-> PyNone]

\* get_json returning the text as a str value instead of parsing it.
get_json_Unparsed(st, file_path, fail) ==
    LET content == TextGet(st, file_path, fail)
    IN  IF content = None THEN PyNone ELSE PyStr(content)

\* get_json: the parsed content, None when the file is absent, the backend
\* fails or the content is not JSON.
get_json(st, file_path, fail) ==
    LET content == TextGet(st, file_path, fail)
    IN  IF content = None THEN PyNone
        ELSE LET r == Loads(content)
             IN  IF r.ok THEN r.v ELSE PyNone

\* create_json: create with the serialised data.
create_json(st, file_path, data, fail) ==
    TextCreate(st, file_path, Dumps(data, 0), fail)

\* update_json: the same as create_json.
update_json(st, file_path, data, fail) == create_json(st, file_path, data, fail)

\* The paths and the data of the JSON calls: the dicts of the unit tests cut
\* down, a nested value, an empty list, and a dict with an int key.
JsonPaths == {<<"b">>, <<"a", "/", "b">>}

NestedDict ==
    PyDict(<< <<PyStr(<<97>>), PyList(<<PyInt(10), PyStr(<<98>>)>>)>>,
              <<PyStr(<<98>>), PyBool(TRUE)>> >>)

IntKeyDict == PyDict(<< <<PyInt(1), PyInt(2)>> >>)

JsonData ==
    { PyDict(<< <<PyStr(<<97>>), PyInt(1)>> >>), NestedDict, PyList(<<>>),
      IntKeyDict }

CreateJson(file_path, data, fail) ==
    /\ HasRoom(TextPrefix \o file_path)
    /\ LET r == create_json(store, file_path, data, fail)
       IN  /\ store' = r.store
           /\ resp' = [op |-> "create_json", ok |-> r.ok]
    /\ UNCHANGED <<req, writes>>

UpdateJson(file_path, data, fail) ==
    /\ HasRoom(TextPrefix \o file_path)
    /\ LET r == update_json(store, file_path, data, fail)
       IN  /\ store' = r.store
           /\ resp' = [op |-> "update_json", ok |-> r.ok]
    /\ UNCHANGED <<req, writes>>

GetJson(file_path, fail) ==
    /\ resp' = [op |-> "get_json", value |-> get_json(store, file_path, fail)]
    /\ UNCHANGED <<store, req, writes>>

NextJson ==
    \/ \E file_path \in JsonPaths, data \in JsonData, fail \in BOOLEAN :
          CreateJson(file_path, data, fail)
    \/ \E file_path \in JsonPaths, data \in JsonData, fail \in BOOLEAN :
          UpdateJson(file_path, data, fail)
    \/ \E file_path \in JsonPaths, fail \in BOOLEAN : GetJson(file_path, fail)
    \/ \E file_path \in JsonPaths, content \in TextContents :
          Create("text", file_path, content, FALSE)
    \/ \E file_path \in JsonPaths : Delete("text", file_path, FALSE)

SpecJson == Init /\ [][NextJson]_vars

(***************************************************************************)
(* Every operation that reads or writes one file or lists the store, over  *)
(* paths of which one is a prefix of another.                              *)
(***************************************************************************)

FramePaths == { <<"a">>, <<"a", "/", "b">>, <<"b">> }

NextFrame ==
    \/ \E part \in Partitions, file_path \in FramePaths, fail \in BOOLEAN :
          \E content \in Contents(part) : Create(part, file_path, content, fail)
    \/ \E part \in Partitions, file_path \in FramePaths, fail \in BOOLEAN :
          \E content \in Contents(part) : Update(part, file_path, content, fail)
    \/ \E part \in Partitions, file_path \in FramePaths, fail \in BOOLEAN :
          Delete(part, file_path, fail)
    \/ \E part \in Partitions, file_path \in FramePaths :
          Get(part, file_path, FALSE)
    \/ \E part \in Partitions : ListFiles(part, FALSE)
    \/ \E path \in ConcDirs : ListStorage(path, NoFault)
    \/ \E path \in FramePaths, binary \in BOOLEAN : GetFile(path, binary, FALSE)

SpecFrame == Init /\ [][NextFrame]_vars

(***************************************************************************)
(* List requests during which the backend enumeration of either partition  *)
(* or of both fails, over a store that creates and deletes fill and empty. *)
(***************************************************************************)

ListFaultPaths == { <<"b">>, <<"a", "/", "a">>, <<"a", "/", "b">> }

ListFaultDirs == { <<>>, <<"a">>, <<"/", "a", "/">> }

\* The enumerations of one list request that may fail.
ListFaults ==
    { [text |-> t, binary |-> b, gets |-> {}] : t \in BOOLEAN, b \in BOOLEAN }

NextListFaults ==
    \/ \E part \in Partitions, file_path \in ListFaultPaths :
          Create(part, file_path, ListedContent(part), FALSE)
    \/ \E part \in Partitions, file_path \in ListFaultPaths :
          Delete(part, file_path, FALSE)
    \/ \E path \in ListFaultDirs, fault \in ListFaults : ListStorage(path, fault)

SpecListFaults == Init /\ [][NextListFaults]_vars

(***************************************************************************)
(* Properties of the storage services, checked under Spec                  *)
(***************************************************************************)

Other(part) == IF part = "text" THEN "binary" ELSE "text"

\* Some write or delete of (part, file_path) is the step taken.
WritesKey(part, file_path) ==
    \E fail \in BOOLEAN :
        \/ Delete(part, file_path, fail)
        \/ \E content \in Contents(part) :
              \/ Create(part, file_path, content, fail)
              \/ Update(part, file_path, content, fail)

RoundTripStep ==
    \A part \in Partitions, file_path \in ServicePaths :
        /\ \A content \in Contents(part), fail \in BOOLEAN :
              (Create(part, file_path, content, fail) /\ resp'.ok)
                  => StorageGet(part, store', file_path, FALSE) = content
        /\ (StorageGet(part, store', file_path, FALSE)
                # StorageGet(part, store, file_path, FALSE))
              => WritesKey(part, file_path)

\* C1: round trip.  In either partition a create of k with content c that
\* returns true makes get(k) return exactly c, and get(k) keeps returning it
\* through every step that is not a write or a delete of k in that partition.
C1_RoundTrip == [][RoundTripStep]_vars

\* A create has just succeeded, and some path holds the two-byte text in the
\* text partition and the non-UTF-8 bytes in the binary partition.
C1_Witness ==
    /\ resp.op = "create" /\ resp.ok
    /\ \E p \in ServicePaths :
          /\ TextGet(store, p, FALSE) = <<233>>
          /\ BinaryGet(store, p, FALSE) = <<255>>

UpdateStep ==
    \A part \in Partitions, file_path \in ServicePaths :
        \A content \in Contents(part) :
            /\ \A fail \in BOOLEAN :
                  Update(part, file_path, content, fail) =>
                      LET created == StorageCreate(part, store, file_path,
                                                   content, fail)
                      IN  resp'.ok = created.ok /\ store' = created.store
            /\ Update(part, file_path, content, FALSE) =>
                  LET again == StorageUpdate(part, store', file_path, content,
                                             FALSE)
                  IN  /\ resp'.ok
                      /\ StorageGet(part, store', file_path, FALSE) = content
                      /\ again.ok
                      /\ again.store = store'

\* C2: update(k, c) answers and leaves the store exactly as create(k, c)
\* does: it succeeds whether or not k exists, get(k) then returns c, and a
\* second update(k, c) succeeds too and changes nothing.
C2_UpdateIsCreate == [][UpdateStep]_vars

\* An update has just succeeded and left a key in the store.
C2_Witness ==
    /\ resp.op = "update" /\ resp.ok
    /\ \E p \in ServicePaths : TextGet(store, p, FALSE) = <<233>>

DeleteStep ==
    \A part \in Partitions, file_path \in ServicePaths :
        /\ (Delete(part, file_path, FALSE)
              /\ (Prefix(part) \o file_path) \in DOMAIN store)
              => /\ resp'.ok
                 /\ StorageGet(part, store', file_path, FALSE) = None
                 /\ ~InSeq(file_path, StorageListFiles(part, store', FALSE))
        /\ (/\ StorageGet(part, store, file_path, FALSE) = None
            /\ \/ StorageGet(part, store', file_path, FALSE) # None
               \/ InSeq(file_path, StorageListFiles(part, store', FALSE)))
              => \E content \in Contents(part), fail \in BOOLEAN :
                    \/ Create(part, file_path, content, fail)
                    \/ Update(part, file_path, content, fail)

\* C3: the delete of a key that a create stored returns true; from then on
\* get(k) returns None and k is not in list_files() of that partition, until
\* a create (or update) of k stores it again.
C3_DeleteRemoves == [][DeleteStep]_vars

\* A delete has just succeeded, leaving another key behind.
C3_Witness ==
    /\ resp.op = "delete" /\ resp.ok
    /\ DOMAIN store # {}

IsolationStep ==
    \A part \in Partitions, file_path \in ServicePaths :
        (store' # store /\ WritesKey(part, file_path)) =>
            /\ \A q \in ServicePaths :
                  StorageGet(Other(part), store', q, FALSE)
                      = StorageGet(Other(part), store, q, FALSE)
            /\ StorageListFiles(Other(part), store', FALSE)
                  = StorageListFiles(Other(part), store, FALSE)

\* C4: partition isolation.  A create, update or delete at a path in one
\* partition leaves every get and the list_files() of the other partition as
\* they were; a path created under text only is not in binary's list_files().
C4_PartitionIsolation == [][IsolationStep]_vars

\* A create has just stored a path in the text partition that the binary
\* partition neither returns nor lists, while binary holds another path.
C4_Witness ==
    /\ resp.op = "create" /\ resp.ok
    /\ \E p \in ServicePaths :
          /\ TextGet(store, p, FALSE) # None
          /\ BinaryGet(store, p, FALSE) = None
          /\ ~InSeq(p, BinaryListFiles(store, FALSE))
    /\ BinaryListFiles(store, FALSE) # <<>>

\* Position of key in the backend's enumeration.
ClientIndex(st, key) ==
    CHOOSE i \in 1..Len(ClientList(st)) : ClientList(st)[i] = key

\* listed is exactly the stored keys under the partition's prefix, each once,
\* without the prefix, in the backend's order.
ExactListing(part, st, listed) ==
    /\ \A i \in 1..Len(listed) : (Prefix(part) \o listed[i]) \in DOMAIN st
    /\ \A k \in DOMAIN st :
          StartsWith(k, Prefix(part))
              => \E i \in 1..Len(listed) : Prefix(part) \o listed[i] = k
    /\ \A k \in DOMAIN st :
          StartsWith(k, Prefix(Other(part)))
              => \A i \in 1..Len(listed) : listed[i] # k
    /\ \A i, j \in 1..Len(listed) :
          i < j => ClientIndex(st, Prefix(part) \o listed[i])
                      < ClientIndex(st, Prefix(part) \o listed[j])

ListFilesStep ==
    \A part \in Partitions :
        /\ ListFiles(part, FALSE) => ExactListing(part, store, resp'.value)
        /\ \A file_path \in ServicePaths :
              /\ (\E content \in Contents(part) :
                      Create(part, file_path, content, FALSE))
                    => InSeq(file_path, StorageListFiles(part, store', FALSE))
              /\ (Delete(part, file_path, FALSE) /\ resp'.ok)
                    => ~InSeq(file_path, StorageListFiles(part, store', FALSE))

\* C5: list_files() of a partition returns exactly the backend keys that
\* begin with the partition's prefix, each once with the prefix cut off, in
\* backend order: a created key is listed until it is deleted, and no key of
\* the other partition is listed.
C5_ListFilesExact == [][ListFilesStep]_vars

\* list_files() has just returned two paths while the other partition holds
\* a key too.
C5_Witness ==
    /\ resp.op = "list_files"
    /\ Len(resp.value) = 2
    /\ \E part \in Partitions :
          /\ resp.value = StorageListFiles(part, store, FALSE)
          /\ StorageListFiles(Other(part), store, FALSE) # <<>>

\* What a service call may return: a boolean, a content or None, a list.
ServiceAnswer(r) ==
    CASE r.op \in {"create", "update", "delete"} -> r.ok \in BOOLEAN
      [] r.op = "get" ->
            r.value \in {None} \cup TextContents \cup BinaryContents
      [] r.op = "list_files" ->
            \A i \in 1..Len(r.value) : r.value[i] \in ServicePaths
      [] OTHER -> FALSE

BackendFailureStep ==
    /\ \A part \in Partitions, file_path \in ServicePaths :
          /\ \A content \in Contents(part) :
                /\ Create(part, file_path, content, TRUE) => resp'.ok = FALSE
                /\ Update(part, file_path, content, TRUE) => resp'.ok = FALSE
          /\ Delete(part, file_path, TRUE) => resp'.ok = FALSE
          /\ Get(part, file_path, TRUE) => resp'.value = None
    /\ \A part \in Partitions : ListFiles(part, TRUE) => resp'.value = <<>>
    /\ ServiceAnswer(resp')

\* C15: when the backend call raises, create, update and delete return
\* False, get returns None and list_files returns the empty list; every call,
\* failing or not, ends with a return value, never with an exception.
C15_FailuresAbsorbed == [][BackendFailureStep]_vars

\* Both partitions hold files and the last list_files call returned the
\* empty list: its backend enumeration raised.
C15_Witness ==
    /\ resp.op = "list_files"
    /\ resp.value = <<>>
    /\ \A part \in Partitions : StorageListFiles(part, store, FALSE) # <<>>

(***************************************************************************)
(* Properties of the listing route, checked under SpecRoutes               *)
(***************************************************************************)

\* The non-empty pieces of a path between its slashes.
Components(p) == SelectSeq(Split(p), NonEmpty)

\* A path without an empty component.
Normalised(p) == p # <<>> /\ \A i \in 1..Len(Split(p)) : Split(p)[i] # <<>>

\* The logical paths stored in a partition.
StoredPaths(part, st) ==
    { SubSeq(k, Len(Prefix(part)) + 1, Len(k)) :
        k \in { x \in DOMAIN st : StartsWith(x, Prefix(part)) } }

AllNormalised(st) ==
    \A part \in Partitions : \A p \in StoredPaths(part, st) : Normalised(p)

IsPrefixSeq(a, b) == Len(a) <= Len(b) /\ SubSeq(b, 1, Len(a)) = a

SeqRange(s) == { s[i] : i \in 1..Len(s) }

\* The listing of a directory when no backend call fails.
Listing(st, path) == list_storage(st, path, FALSE, FALSE, {})

\* The stored files whose components are dir's components and one name.
FilesDirectlyIn(st, dir) ==
    { f \in { [part |-> part, path |-> p] :
                part \in Partitions, p \in FilePaths } :
        /\ f.path \in StoredPaths(f.part, st)
        /\ Len(Components(f.path)) = Len(Components(dir)) + 1
        /\ IsPrefixSeq(Components(dir), Components(f.path)) }

\* The folders that stored keys imply directly below dir: the names that
\* follow dir's components in keys with two more components at least.
FoldersDirectlyIn(st, dir) ==
    LET n == Len(Components(dir))
    IN  { [name |-> Components(p)[n + 1],
           path |-> Join(SubSeq(Components(p), 1, n + 1))] :
            p \in { q \in StoredPaths("text", st) \cup StoredPaths("binary", st) :
                      /\ Len(Components(q)) >= n + 2
                      /\ IsPrefixSeq(Components(dir), Components(q)) } }

FilesExact(st, dir) ==
    LET files == Listing(st, dir).files
        stored == FilesDirectlyIn(st, dir)
    IN  /\ Len(files) = Cardinality(stored)
        /\ { [name |-> files[i].name, is_binary |-> files[i].is_binary] :
               i \in 1..Len(files) }
           = { [name |-> Components(f.path)[Len(Components(f.path))],
                is_binary |-> (f.part = "binary")] : f \in stored }

FoldersExact(st, dir) ==
    LET folders == Listing(st, dir).folders
    IN  /\ Len(folders) = Cardinality(FoldersDirectlyIn(st, dir))
        /\ SeqRange(folders) = FoldersDirectlyIn(st, dir)

\* The keys a/b/a, a/a and b in the text partition: the shape of
\* data/config/settings.json, data/readme.md and top.txt.
ExampleStore ==
    [k \in { TextPrefix \o <<"a", "/", "b", "/", "a">>,
             TextPrefix \o <<"a", "/", "a">>,
             TextPrefix \o <<"b">> } |-> EncodeUtf8(ListedContent("text"))]

ExampleListings ==
    /\ Listing(ExampleStore, <<>>) =
          [files |-> <<[name |-> <<"b">>, size |-> 2, is_binary |-> FALSE]>>,
           folders |-> <<[name |-> <<"a">>, path |-> <<"a">>]>>,
           current_path |-> <<>>, parent_path |-> NoneStr]
    /\ Listing(ExampleStore, <<"a">>) =
          [files |-> <<[name |-> <<"a">>, size |-> 2, is_binary |-> FALSE]>>,
           folders |-> <<[name |-> <<"b">>, path |-> <<"a", "/", "b">>]>>,
           current_path |-> <<"a">>, parent_path |-> <<>>]
    /\ Listing(ExampleStore, <<"a", "/", "b">>) =
          [files |-> <<[name |-> <<"a">>, size |-> 2, is_binary |-> FALSE]>>,
           folders |-> <<>>,
           current_path |-> <<"a", "/", "b">>, parent_path |-> <<"a">>]

\* C6: hierarchy reconstruction, one level only.  When no stored key has an
\* empty component, the listing of a directory P holds as files exactly the
\* keys made of P's components and one name, and as folders exactly the
\* distinct names that follow P in keys with two more components at least,
\* each once with path P/name; the three-key example lists as the spec says.
C6_OneLevelListing ==
    /\ AllNormalised(store)
          => \A dir \in Dirs : FilesExact(store, dir) /\ FoldersExact(store, dir)
    /\ store = ExampleStore => ExampleListings

\* The store holds the three keys of the example and the last call listed
\* directory a: file a and folder b, not the file below a/b.
C6_Witness ==
    /\ store = ExampleStore
    /\ resp.op = "list"
    /\ resp.body = Listing(ExampleStore, <<"a">>)
    /\ Len(resp.body.files) = 1 /\ Len(resp.body.folders) = 1

\* C7: folders are inferred.  In every reachable store state the listing of
\* a directory returns a folder exactly when some stored key, in either
\* partition, has the folder's components as a strict prefix of its own.
C7_FoldersInferred == \A dir \in Dirs : FoldersExact(store, dir)

\* The ancestors of a path: its proper, non-empty component prefixes.
FolderListed(st, comps, i) ==
    [name |-> comps[i], path |-> Join(SubSeq(comps, 1, i))]
        \in SeqRange(Listing(st, Join(SubSeq(comps, 1, i - 1))).folders)

HasKeyBelow(st, comps, i) ==
    \E q \in StoredPaths("text", st) \cup StoredPaths("binary", st) :
        /\ Len(Components(q)) > i
        /\ IsPrefixSeq(SubSeq(comps, 1, i), Components(q))

RecomputedStep ==
    \A part \in Partitions, file_path \in FilePaths :
        LET comps == Components(file_path)
            n == Len(comps)
        IN  /\ Create(part, file_path, ListedContent(part), FALSE)
                  => /\ \E i \in 1..Len(Listing(store', Join(SubSeq(comps, 1, n - 1))).files) :
                          LET f == Listing(store', Join(SubSeq(comps, 1, n - 1))).files[i]
                          IN  f.name = comps[n] /\ f.is_binary = (part = "binary")
                     /\ \A i \in 1..(n - 1) : FolderListed(store', comps, i)
            /\ (Delete(part, file_path, FALSE) /\ resp'.ok)
                  => \A i \in 1..(n - 1) :
                        ~HasKeyBelow(store', comps, i)
                            => ~FolderListed(store', comps, i)

\* C8: a listing is recomputed from the backend on every call.  Right after
\* a create the listing of the file's parent holds the file and every
\* ancestor folder is listed in its own parent; right after the delete of the
\* last key below a folder, the folder is gone from its parent's listing.
C8_ListingRecomputed == [][RecomputedStep]_vars

\* The component sequences of at most MaxDepth names.
CompSeqs == UNION { [1..n -> { <<"a">>, <<"b">> }] : n \in 0..MaxDepth }

\* The parent the law gives a path with these components.
ParentOf(comps) ==
    IF comps = <<>> THEN NoneStr ELSE Join(SubSeq(comps, 1, Len(comps) - 1))

\* C9: parent path law.  The parent of the root path is None; the parent of
\* a path of components c1..cn is c1..c(n-1) joined by "/", the empty string
\* when n = 1; and the listing of P carries that parent of P.
C9_ParentPathLaw ==
    /\ \A comps \in CompSeqs : get_parent_path(Join(comps)) = ParentOf(comps)
    /\ get_parent_path(<<>>) = NoneStr
    /\ get_parent_path(<<"a">>) = <<>>
    /\ get_parent_path(<<"a", "/", "b", "/", "a">>) = <<"a", "/", "b">>
    /\ \A dir \in Dirs :
          Listing(store, dir).parent_path = ParentOf(Components(dir))
    /\ resp.op = "list"
          => resp.body.parent_path = ParentOf(Components(resp.body.current_path))

\* The last call listed a/b and answered with parent a.
C9_Witness ==
    /\ resp.op = "list"
    /\ resp.body.current_path = <<"a", "/", "b">>
    /\ resp.body.parent_path = <<"a">>

\* C10: in every reachable store state no stored key has an empty component.
C10_NoEmptyComponent == AllNormalised(store)

\* The names of a sequence of entries are pairwise distinct.
DistinctNames(entries) ==
    \A i, j \in 1..Len(entries) : entries[i].name = entries[j].name => i = j

\* C11: each folder name appears exactly once in the folders of every
\* Listing, however many keys lie beneath the folder and whichever partition
\* or partitions they are stored in: whatever the directory and whatever
\* backend calls fail, no two folder entries carry the same name, and the
\* folders of the last list response are pairwise distinct too.
C11_FolderOnce ==
    /\ \A dir \in Dirs : \A fault \in { f \in Faults(store) : f.gets = {} } :
          DistinctNames(list_storage(store, dir, fault.text, fault.binary,
                                     fault.gets).folders)
    /\ resp.op = "list" => DistinctNames(resp.body.folders)

\* Folder a holds keys of both partitions, three in all, and the last call,
\* a listing of the root, answered with the one folder a.
C11_Witness ==
    /\ \E p \in StoredPaths("text", store) : StartsWith(p, <<"a", "/">>)
    /\ \E p \in StoredPaths("binary", store) : StartsWith(p, <<"a", "/">>)
    /\ Cardinality({ k \in DOMAIN store :
                       \E part \in Partitions :
                          StartsWith(k, Prefix(part) \o <<"a", "/">>) }) = 3
    /\ resp.op = "list"
    /\ resp.body.current_path = <<>>
    /\ resp.body.folders = <<[name |-> <<"a">>, path |-> <<"a">>]>>

\* The entry list_storage owes a stored file: its last component, the byte
\* length of the content stored under its own key, its partition's flag.
EntryOf(st, f) ==
    [name |-> Components(f.path)[Len(Components(f.path))],
     size |-> Len(st[Prefix(f.part) \o f.path]),
     is_binary |-> (f.part = "binary")]

PartitionTagged(st, dir) ==
    LET files == Listing(st, dir).files
        stored == FilesDirectlyIn(st, dir)
    IN  /\ Len(files) = Cardinality(stored)
        /\ \A i \in 1..Len(files) :
              \E f \in stored :
                 /\ files[i].name = EntryOf(st, f).name
                 /\ files[i].is_binary = (f.part = "binary")
        /\ \A f \in stored : EntryOf(st, f) \in SeqRange(files)

PartitionOf(is_binary) == IF is_binary THEN "binary" ELSE "text"

\* The keys of a partition and their contents are the same in both stores.
PartitionSame(part, st1, st2) ==
    \A k \in DOMAIN st1 \cup DOMAIN st2 :
        StartsWith(k, Prefix(part))
            => k \in DOMAIN st1 /\ k \in DOMAIN st2 /\ st1[k] = st2[k]

\* Well-formed base64: quads of alphabet characters, the last quad ending in
\* at most two pads.
WellFormedBase64(content) ==
    /\ Len(content) % 4 = 0
    /\ \E pads \in 0..2 :
          /\ pads <= Len(content)
          /\ \A i \in 1..Len(content) :
                IF i > Len(content) - pads THEN content[i] = "="
                ELSE B64Value(content[i]) < 64

Base64RejectStep ==
    \A path \in RoutePaths, content \in Base64Contents :
        (~WellFormedBase64(content) /\ CreateFile(path, content, TRUE, FALSE))
            => resp'.status = 400 /\ store' = store

\* C13: create_file with is_binary true and a content that is not
\* well-formed base64 answers 400 and leaves the store as it was.
C13_MalformedBase64Rejected == [][Base64RejectStep]_vars

GetFileStep ==
    \A path \in RoutePaths, binary \in BOOLEAN, fail \in BOOLEAN :
        GetFile(path, binary, fail)
            => LET key == Prefix(PartitionOf(binary)) \o path
               IN  IF fail \/ key \notin DOMAIN store
                   THEN resp'.status = 404
                   ELSE /\ resp'.status = 200
                        /\ resp'.body.content =
                              IF binary THEN store[key]
                              ELSE DecodeUtf8(store[key])

\* C14: get_file reads only the partition its binary flag selects: it
\* answers 404 whenever that partition yields no content for the path, the
\* other partition holding the path or not, and otherwise answers 200 with
\* that partition's content.
C14_GetFileOnePartition == [][GetFileStep]_vars

\* The last get_file answered 404 for a path that one partition holds and
\* the other does not.
C14_Witness ==
    /\ resp.op = "get_file"
    /\ resp.status = 404
    /\ \E path \in RoutePaths :
          /\ resp.body = <<"File not found: ", path>>
          /\ \E part \in Partitions :
                /\ (Prefix(part) \o path) \in DOMAIN store
                /\ (Prefix(Other(part)) \o path) \notin DOMAIN store

photo_png == <<"p", "h", "o", "t", "o", ".", "p", "n", "g">>

notes_txt == <<"n", "o", "t", "e", "s", ".", "t", "x", "t">>

octet_stream == <<"a", "p", "p", "l", "i", "c", "a", "t", "i", "o", "n", "/", "o", "c", "t", "e", "t", "-", "s", "t", "r", "e", "a", "m">>

\* The upload wrote content under the path's key of part and left the other
\* partition as it was.
StoredIn(part, full_path, content) ==
    /\ (Prefix(part) \o full_path) \in DOMAIN store'
    /\ store'[Prefix(part) \o full_path] = content
    /\ PartitionSame(Other(part), store, store')

TextType(content_type) ==
    content_type # NoneStr
    /\ \E t \in text_content_types : StartsWith(content_type, t)

UploadExamplesAsStatedStep ==
    \A path \in UploadDirs, content \in UploadContents :
        /\ UploadFile(path, photo_png, octet_stream, content, FALSE)
              => StoredIn("binary", ChildPath(path, photo_png), content)
        /\ \A content_type \in ContentTypes \ {NoneStr} :
              (DecodeUtf8(content) # None
               /\ UploadFile(path, notes_txt, content_type, content, FALSE))
                  => StoredIn("text", ChildPath(path, notes_txt), content)

\* C16 as stated: upload stores photo.png declared application/octet-stream
\* in the binary partition whatever its bytes, and stores notes.txt with
\* valid UTF-8 bytes in the text partition whatever content type it declares.
C16_UploadExamplesAsStated == [][UploadExamplesAsStatedStep]_vars

UploadExamplesStep ==
    \A path \in UploadDirs, content \in UploadContents :
        /\ UploadFile(path, photo_png, octet_stream, content, FALSE)
              => StoredIn("binary", ChildPath(path, photo_png), content)
        /\ \A content_type \in ContentTypes :
              (TextType(content_type) /\ DecodeUtf8(content) # None
               /\ UploadFile(path, notes_txt, content_type, content, FALSE))
                  => StoredIn("text", ChildPath(path, notes_txt), content)

\* C16: upload stores photo.png declared application/octet-stream in the
\* binary partition whatever its bytes, and stores notes.txt with valid UTF-8
\* bytes in the text partition when its declared content type starts with
\* text/ or application/json.
C16_UploadExamples == [][UploadExamplesStep]_vars

\* photo.png lies in the binary partition, notes.txt in the text partition,
\* and the last call was a successful upload.
C16_Witness ==
    /\ (BinaryPrefix \o photo_png) \in DOMAIN store
    /\ (TextPrefix \o notes_txt) \in DOMAIN store
    /\ (BinaryPrefix \o notes_txt) \notin DOMAIN store
    /\ resp.op = "upload_file"
    /\ resp.status = 200

UploadOrderStep ==
    \A path \in UploadDirs, filename \in UploadNames,
       content_type \in ContentTypes \ {NoneStr}, content \in UploadContents :
        UploadFile(path, filename, content_type, content, FALSE)
            => LET full_path == ChildPath(path, filename)
                   by_type == ~TextType(content_type)
                   by_extension == SplitExt(Lower(filename)) \in binary_extensions
                   by_decoding == DecodeUtf8(content) = None
               IN  /\ by_type => StoredIn("binary", full_path, content)
                   /\ (~by_type /\ by_extension)
                         => StoredIn("binary", full_path, content)
                   /\ (~by_type /\ ~by_extension /\ by_decoding)
                         => StoredIn("binary", full_path, content)
                   /\ (~by_type /\ ~by_extension /\ ~by_decoding)
                         => StoredIn("text", full_path, content)

\* C17: upload decides binary-ness by three checks in a fixed order: the
\* declared content type, then the extension allowlist, then UTF-8
\* decodability.  The first check that says binary is final, whatever the
\* later checks would say; the file is text only when none says binary.
C17_UploadCheckOrder == [][UploadOrderStep]_vars

\* notes.txt lies in the binary partition with the valid UTF-8 byte A: the
\* content type said binary, and neither its extension nor its bytes
\* reverted that.
C17_Witness ==
    /\ (BinaryPrefix \o notes_txt) \in DOMAIN store
    /\ store[BinaryPrefix \o notes_txt] = <<65>>
    /\ resp.op = "upload_file"
    /\ resp.status = 200

CreatePartitionStep ==
    \A path \in RoutePaths, is_binary \in BOOLEAN, fail \in BOOLEAN :
        \A content \in IF is_binary THEN Base64Contents ELSE TextContents :
            (resp'.op = "create_file" /\ CreateFile(path, content, is_binary, fail))
                => /\ PartitionSame(Other(PartitionOf(is_binary)), store, store')
                   /\ resp'.status = 200
                         => (Prefix(PartitionOf(is_binary)) \o path)
                                \in DOMAIN store'

\* C18: create_file stores into the binary partition exactly when is_binary
\* is true, whatever the extension of the path: a successful call writes the
\* key of the partition the flag names and no call changes the other
\* partition, so x.png sent with is_binary false is written as text/x.png
\* and nothing under binary/ changes.
C18_FlagSelectsPartition == [][CreatePartitionStep]_vars

\* x.png lies in the text partition only, after a successful create_file.
C18_Witness ==
    /\ (TextPrefix \o <<"x", ".", "p", "n", "g">>) \in DOMAIN store
    /\ (BinaryPrefix \o <<"x", ".", "p", "n", "g">>) \notin DOMAIN store
    /\ resp.op = "create_file"
    /\ resp.status = 200

(***************************************************************************)
(* Properties of a list request among concurrent writers, checked under    *)
(* SpecConc                                                                *)
(***************************************************************************)

SizeFetchStep ==
    /\ \A fail \in BOOLEAN :
          FetchSize(fail)
              => LET next == Head(req.todo)
                     key == Prefix(next.part)
                            \o ChildPath(req.current_path, next.name)
                     n == Len(req.files_info)
                 IN  /\ Len(req'.files_info) = n + 1
                     /\ SubSeq(req'.files_info, 1, n) = req.files_info
                     /\ req'.files_info[n + 1] =
                           [name |-> next.name,
                            size |-> IF fail \/ key \notin DOMAIN store THEN 0
                                     ELSE Len(store[key]),
                            is_binary |-> (next.part = "binary")]
    /\ ListRespond
          => /\ resp'.status = 200
             /\ resp'.body.files = req.files_info
             /\ Len(req.files_info) =
                   Len(FilesAt("text", req.text_files, req.current_path))
                   + Len(FilesAt("binary", req.binary_files, req.current_path))

\* C19: a file that a concurrent request deleted after the listing
\* enumerated it and before its size was fetched, or whose size fetch fails,
\* is reported with size 0; every size fetch leaves the entries before it as
\* they were, and the listing answers 200 with one entry for every file it
\* enumerated at the path.
C19_SizeZeroOnVanished == [][SizeFetchStep]_vars

\* The listing of the root answered 200 with two entries, one of size 0
\* whose key the store no longer holds, one with the size of its content.
C19_Witness ==
    /\ req = Idle
    /\ resp.op = "list"
    /\ resp.status = 200
    /\ resp.body.current_path = <<>>
    /\ \E i, j \in 1..Len(resp.body.files) :
          /\ resp.body.files[i].size = 0
          /\ (Prefix(PartitionOf(resp.body.files[i].is_binary))
                \o resp.body.files[i].name) \notin DOMAIN store
          /\ resp.body.files[j].size > 0

SameSnapshotStep ==
    ListBinaryFiles(FALSE)
        => req'.binary_files = BinaryListFiles(req.snap, FALSE)

\* C20 as stated: a list request enumerates the backend key set once, so
\* the binary files it reports are those of the very store its text files
\* were enumerated from.
C20_SameSnapshot == [][SameSnapshotStep]_vars

\* The last components of the paths with dir's components and one name, and
\* the names that follow dir's components in longer paths.
NamesDirectlyIn(paths, dir) ==
    { Components(p)[Len(Components(dir)) + 1] :
        p \in { q \in paths :
                  /\ Len(Components(q)) = Len(Components(dir)) + 1
                  /\ IsPrefixSeq(Components(dir), Components(q)) } }

FolderNamesIn(paths, dir) ==
    { Components(p)[Len(Components(dir)) + 1] :
        p \in { q \in paths :
                  /\ Len(Components(q)) >= Len(Components(dir)) + 2
                  /\ IsPrefixSeq(Components(dir), Components(q)) } }

EntryNames(entries, is_binary) ==
    { entries[i].name :
        i \in { j \in 1..Len(entries) : entries[j].is_binary = is_binary } }

SnapshotPerPartitionStep ==
    /\ \A path \in ConcDirs, fail \in BOOLEAN :
          ListTextFiles(path, fail)
              => /\ req'.text_files = StorageListFiles("text", store, fail)
                 /\ req'.lists = 1
    /\ \A fail \in BOOLEAN :
          ListBinaryFiles(fail)
              => /\ req'.binary_files = StorageListFiles("binary", store, fail)
                 /\ req'.text_files = req.text_files
                 /\ req'.lists = 2
    /\ \A fail \in BOOLEAN :
          FetchSize(fail)
              => /\ req'.text_files = req.text_files
                 /\ req'.binary_files = req.binary_files
                 /\ req'.lists = req.lists
    /\ ListRespond
          => /\ req.lists = 2
             /\ EntryNames(resp'.body.files, FALSE)
                   = NamesDirectlyIn(SeqRange(req.text_files), req.path)
             /\ EntryNames(resp'.body.files, TRUE)
                   = NamesDirectlyIn(SeqRange(req.binary_files), req.path)
             /\ { resp'.body.folders[i].name :
                    i \in 1..Len(resp'.body.folders) }
                   = FolderNamesIn(SeqRange(req.text_files)
                                   \cup SeqRange(req.binary_files), req.path)

\* C20: a list request enumerates the backend key set twice, once for the
\* text partition and then once for the binary partition, each time from
\* the store as it is at that moment; the text entries of its answer derive
\* from the first enumeration alone, the binary entries from the second
\* alone, and the folders from the two together.
C20_SnapshotPerPartition == [][SnapshotPerPartitionStep]_vars

\* File b was moved from the text to the binary partition while the request
\* ran: both enumerations hold it, although the store held it in the text
\* partition only when the first ran and holds it in the binary partition
\* only now.
C20_Witness ==
    /\ req.pc = "binary_listed"
    /\ InSeq(<<"b">>, req.text_files)
    /\ InSeq(<<"b">>, req.binary_files)
    /\ (BinaryPrefix \o <<"b">>) \notin DOMAIN req.snap
    /\ (TextPrefix \o <<"b">>) \notin DOMAIN store

(***************************************************************************)
(* Properties of concurrent writers of one key, checked under SpecWriters  *)
(***************************************************************************)

LastWriteStep ==
    /\ \A c \in Clients :
          WriteApply(c, FALSE)
              => /\ resp'.ok
                 /\ StorageGet(writes[c].part, store', WritePath, FALSE)
                       = writes[c].content
    /\ \A part \in Partitions :
          (Prefix(part) \o WritePath) \in DOMAIN store
              => StorageGet(part, store', WritePath, FALSE) \in Contents(part)

\* C21: last write wins.  Whatever calls of other clients are in flight on
\* the same key, a create or update whose upload the backend applies returns
\* True and get then returns its whole content; a key once written never
\* becomes absent and never holds anything but the content of one call.
C21_LastWriteWins == [][LastWriteStep]_vars

\* Two clients have calls in flight on the key of one partition with
\* different contents, the key holds a content already, and the write
\* applied last returned True.
C21_Witness ==
    /\ \E c1, c2 \in Clients :
          /\ writes[c1].pc = "called" /\ writes[c2].pc = "called"
          /\ writes[c1].part = writes[c2].part
          /\ writes[c1].content # writes[c2].content
          /\ (Prefix(writes[c1].part) \o WritePath) \in DOMAIN store
    /\ resp.op \in {"create", "update"}
    /\ resp.ok

(***************************************************************************)
(* Further properties of the listing route, checked under SpecRoutes       *)
(***************************************************************************)

\* The byte length list_storage owes a stored file: the UTF-8 encoded length
\* of the text for a text file, the raw length for a binary file.
ByteLength(part, bytes) ==
    IF part = "text" THEN Len(EncodeUtf8(DecodeUtf8(bytes))) ELSE Len(bytes)

SizesExact(st, dir) ==
    LET files == Listing(st, dir).files
    IN  \A f \in FilesDirectlyIn(st, dir) :
           \E i \in 1..Len(files) :
              /\ files[i].name = Components(f.path)[Len(Components(f.path))]
              /\ files[i].is_binary = (f.part = "binary")
              /\ files[i].size = ByteLength(f.part, st[Prefix(f.part) \o f.path])

\* C22: with no writer at work, every stored file directly in a listed
\* directory has a file entry whose size is the byte length of the content
\* stored under the file's key: the UTF-8 encoded length for a text file, the
\* raw length for a binary file.
C22_SizeIsByteLength == \A dir \in Dirs : SizesExact(store, dir)

(***************************************************************************)
(* Further properties of the file routes, checked under SpecFiles and      *)
(* SpecUpload                                                              *)
(***************************************************************************)

\* C23: error mapping of the file routes.  A path absent from the selected
\* partition gives 404, a content that does not decode as base64 gives 400,
\* every answer has one of the statuses 200, 400, 404 and 500, and a 500
\* answer carries no text of the exception that caused it.
C23_ErrorMapping ==
    /\ \A path \in RoutePaths, binary \in BOOLEAN :
          (Prefix(PartitionOf(binary)) \o path) \notin DOMAIN store
              => get_file(store, path, binary, FALSE).status = 404
    /\ \A path \in RoutePaths, content \in Base64Contents :
          b64decode(content) = B64Error
              => create_file(store, path, content, TRUE, FALSE).status = 400
    /\ resp.op \in {"get_file", "create_file", "delete_file"}
          => /\ resp.status \in {200, 400, 404, 500}
             /\ resp.status = 500
                   => \A e \in ClientErrors : ~InSeq(e, resp.body)

DeleteFileStep ==
    \A path \in RoutePaths, is_binary \in BOOLEAN, fail \in BOOLEAN :
        DeleteFile(path, is_binary, fail)
            => LET part == PartitionOf(is_binary)
                   key == Prefix(part) \o path
                   failure == fail \/ key \notin DOMAIN store
               IN  /\ StorageDelete(part, store, path, fail).ok = ~failure
                   /\ failure => resp'.status = 500 /\ store' = store
                   /\ ~failure
                         => /\ resp'.status = 200
                            /\ key \notin DOMAIN store'
                            /\ PartitionSame(Other(part), store, store')

\* C24: delete returns False exactly when the backend call for prefix+path
\* fails (the object is missing or the backend raises), and delete_file then
\* answers 500 and leaves the store as it was; delete_file answers 200 only
\* when the backend removed the object, and the key is then absent from the
\* selected partition.
C24_DeleteFailureReported == [][DeleteFileStep]_vars

\* The last delete_file answered 500 "Failed to delete file" and files are
\* still stored.
C24_Witness ==
    /\ resp.op = "delete_file"
    /\ resp.status = 500
    /\ resp.body = <<"Error deleting file: ", "500: Failed to delete file">>
    /\ store # <<>>

(***************************************************************************)
(* Properties of the JSON methods, checked under SpecJson                  *)
(***************************************************************************)

\* The key of a path in the Text partition holds this text.
HoldsText(st, file_path, content) ==
    /\ (TextPrefix \o file_path) \in DOMAIN st
    /\ st[TextPrefix \o file_path] = EncodeUtf8(content)

\* get_json answers None for a path that is absent or holds text that is
\* not JSON.
NoneUnlessJson ==
    \A file_path \in JsonPaths :
        (\/ (TextPrefix \o file_path) \notin DOMAIN store
         \/ \E content \in TextContents : HoldsText(store, file_path, content))
            => get_json(store, file_path, FALSE) = PyNone

JsonRoundTripAsStatedStep ==
    /\ \A file_path \in JsonPaths, data \in JsonData :
          (CreateJson(file_path, data, FALSE) \/ UpdateJson(file_path, data, FALSE))
              => get_json(store', file_path, FALSE) = data
    /\ NoneUnlessJson

\* C25 as stated: after create_json(k, d) or update_json(k, d) returned True,
\* get_json(k) returns a value equal to d, for every d; get_json returns None
\* when k is absent or its content is not JSON.
C25_JsonRoundTripAsStated == [][JsonRoundTripAsStatedStep]_vars

\* A value made of the types JSON has: every key of every dict is a str.
RECURSIVE JsonNative(_)
JsonNative(v) ==
    CASE TypeOf(v) = "list" -> \A i \in 1..Len(v.list) : JsonNative(v.list[i])
      [] TypeOf(v) = "dict" ->
            \A i \in 1..Len(v.dict) :
                TypeOf(v.dict[i][1]) = "str" /\ JsonNative(v.dict[i][2])
      [] OTHER -> TRUE

JsonRoundTripStep ==
    /\ \A file_path \in JsonPaths, data \in JsonData :
          /\ JsonNative(data)
          /\ CreateJson(file_path, data, FALSE) \/ UpdateJson(file_path, data, FALSE)
          => get_json(store', file_path, FALSE) = data
    /\ NoneUnlessJson

\* C25: for data whose dicts have str keys only, get_json(k) returns a value
\* equal to d after create_json(k, d) returned True, and equal to d2 after
\* update_json(k, d2) on the existing key did; get_json returns None when k
\* is absent or its content is not JSON.
C25_JsonRoundTrip == [][JsonRoundTripStep]_vars

\* update_json has just replaced the content of a/b, which get_json gives
\* back as the nested dict, while b holds text that is not JSON.
C25_Witness ==
    /\ resp = [op |-> "update_json", ok |-> TRUE]
    /\ get_json(store, <<"a", "/", "b">>, FALSE) = NestedDict
    /\ HoldsText(store, <<"b">>, <<65>>)
    /\ get_json(store, <<"b">>, FALSE) = PyNone

(***************************************************************************)
(* The frame of the operations, checked under SpecFrame                    *)
(***************************************************************************)

\* The raw keys whose presence or content differs between two stores.
Touched(st1, st2) ==
    { k \in DOMAIN st1 \cup DOMAIN st2 :
        k \notin DOMAIN st1 \/ k \notin DOMAIN st2 \/ st1[k] # st2[k] }

\* Some create, update or delete on (part, file_path) is this step.
WritesFile(part, file_path) ==
    \/ \E content \in Contents(part), fail \in BOOLEAN :
          \/ Create(part, file_path, content, fail)
          \/ Update(part, file_path, content, fail)
    \/ \E fail \in BOOLEAN : Delete(part, file_path, fail)

\* Some get, list_files, list_storage or get_file is this step.
ReadsStore ==
    /\ resp'.op \in {"get", "list_files", "list", "get_file"}
    /\ \/ \E part \in Partitions, file_path \in FramePaths :
             Get(part, file_path, FALSE)
       \/ \E part \in Partitions : ListFiles(part, FALSE)
       \/ \E path \in ConcDirs : ListStorage(path, NoFault)
       \/ \E path \in FramePaths, binary \in BOOLEAN :
             GetFile(path, binary, FALSE)

FrameStep ==
    /\ \A part \in Partitions, file_path \in FramePaths :
          \/ Touched(store, store') \subseteq {Prefix(part) \o file_path}
          \/ ~WritesFile(part, file_path)
    /\ Touched(store, store') = {} \/ ~ReadsStore

\* C26: create, update and delete on (partition, path) change the presence
\* or content of no key but prefix + path, in either partition; get,
\* list_files, list_storage and get_file change no key.
C26_Frame == [][FrameStep]_vars

\* A delete has just succeeded while the key that extends the path a and
\* the key of a in the other partition are both still there.
C26_Witness ==
    /\ resp = [op |-> "delete", ok |-> TRUE]
    /\ (TextPrefix \o <<"a">>) \notin DOMAIN store
    /\ (TextPrefix \o <<"a", "/", "b">>) \in DOMAIN store
    /\ (BinaryPrefix \o <<"a">>) \in DOMAIN store

(***************************************************************************)
(* The writes of an upload, checked under SpecUpload                       *)
(***************************************************************************)

\* An upload that the backend does not fail wrote content to the key of
\* full_path in part and to no other key, and answered success.
WroteOnce(part, full_path, content) ==
    LET key == Prefix(part) \o full_path
    IN  /\ Touched(store, store') \subseteq {key}
        /\ key \in DOMAIN store'
        /\ store'[key] = content
        /\ resp'.status = 200

UploadWriteStepOver(types) ==
    \A path \in UploadDirs, filename \in UploadNames, content_type \in types,
       content \in UploadContents :
        UploadFile(path, filename, content_type, content, FALSE)
            => LET full_path == ChildPath(path, filename)
               IN  /\ \E part \in Partitions : WroteOnce(part, full_path, content)
                   /\ (/\ TextType(content_type)
                       /\ ~is_binary_file(filename)
                       /\ DecodeUtf8(content) = None)
                         => WroteOnce("binary", full_path, content)

UploadWriteStep == UploadWriteStepOver(ContentTypes)

\* C27: every upload the backend does not fail writes its bytes to exactly
\* one key, path/filename (filename for an empty path) in one partition, and
\* answers success; with a text content type, a file name outside the
\* binary extensions and bytes that are not UTF-8 that partition is Binary.
C27_UploadOneWrite == [][UploadWriteStep]_vars

(***************************************************************************)
(* Listings of empty places and of colliding names, checked under          *)
(* SpecRoutes, and of failing enumerations, checked under SpecListFaults   *)
(***************************************************************************)

\* The stored logical paths of both partitions.
AllStoredPaths(st) == StoredPaths("text", st) \cup StoredPaths("binary", st)

\* No key is stored under the directory: no stored path has the components
\* of the directory and more.
NothingUnder(st, dir) ==
    \A p \in AllStoredPaths(st) :
        ~(/\ IsPrefixSeq(Components(dir), Components(p))
          /\ Len(Components(p)) > Len(Components(dir)))

\* The listing of a directory with nothing in it.
EmptyListing(dir) ==
    [files |-> <<>>, folders |-> <<>>,
     current_path |-> Join(Components(dir)),
     parent_path |-> ParentOf(Components(dir))]

\* C28: the listing of a directory under which no key is stored, a path that
\* names a stored file included, is a success with no files, no folders, the
\* normalised path as current_path and its parent as parent_path.
C28_EmptyDirectoryListing ==
    /\ \A dir \in Dirs :
          NothingUnder(store, dir) => Listing(store, dir) = EmptyListing(dir)
    /\ resp.op = "list" => resp.status = 200

\* a/b is a stored file with nothing under it and the last call listed a/b:
\* an empty listing with parent a.
C28_Witness ==
    /\ <<"a", "/", "b">> \in AllStoredPaths(store)
    /\ NothingUnder(store, <<"a", "/", "b">>)
    /\ resp.op = "list"
    /\ resp.status = 200
    /\ resp.body = EmptyListing(<<"a", "/", "b">>)

\* The store as it would be with the partitions whose enumeration fails
\* holding no key.
WithoutPartitions(st, failText, failBinary) ==
    [k \in { j \in DOMAIN st :
               /\ ~(failText /\ StartsWith(j, TextPrefix))
               /\ ~(failBinary /\ StartsWith(j, BinaryPrefix)) } |-> st[k]]

\* C29: a list request during which the backend enumeration of a partition
\* fails still succeeds, and its listing is the one an empty partition would
\* give: the entries of the other partition only.
C29_ListFailureAsEmpty ==
    /\ \A dir \in ListFaultDirs, failText \in BOOLEAN, failBinary \in BOOLEAN :
          list_storage(store, dir, failText, failBinary, {})
              = Listing(WithoutPartitions(store, failText, failBinary), dir)
    /\ resp.op = "list" => resp.status = 200

\* Both partitions hold a file in the root, the enumeration of the Text
\* partition failed during the last list request, and the listing answered
\* holds the Binary file only.
C29_Witness ==
    /\ resp.op = "list"
    /\ resp.status = 200
    /\ resp.body = list_storage(store, <<>>, TRUE, FALSE, {})
    /\ resp.body # Listing(store, <<>>)
    /\ Len(resp.body.files) = 1
    /\ resp.body.files[1].is_binary

\* The entry of the directory's listing named n is a file, or a folder.
HasFileEntry(listing, n) ==
    \E i \in 1..Len(listing.files) : listing.files[i].name = n

HasFolderEntry(listing, n) ==
    \E i \in 1..Len(listing.folders) : listing.folders[i].name = n

\* Some partition stores p as a file and some partition stores a key whose
\* components extend those of p.
Collides(st, p) ==
    /\ p \in AllStoredPaths(st)
    /\ \E q \in AllStoredPaths(st) :
          /\ Normalised(q)
          /\ IsPrefixSeq(Components(p), Components(q))
          /\ Len(Components(q)) > Len(Components(p))

\* The paths that name a file and, with one more component, a key under it.
CollidingPaths == { q \in FilePaths : Normalised(q) }

\* Creating path in part is accepted and leaves the colliding key as it was.
CreateBeside(part, path, other) ==
    LET r == StorageCreate(part, store, path, ListedContent(part), FALSE)
    IN  /\ r.ok
        /\ (Prefix(part) \o path) \in DOMAIN r.store
        /\ other \in DOMAIN r.store
        /\ r.store[other] = store[other]

\* C30: a stored key and a virtual folder of the same name at the same level
\* live side by side.  When P/n is stored as a file and another key lies
\* under P/n/, the listing of P has a file entry n and a folder entry n; and
\* where one of P/n and P/n/a is stored, in whichever partition, a create of
\* the other is accepted and leaves the first as it was.
C30_FileAndFolderCollide ==
    \A p \in CollidingPaths :
        /\ Collides(store, p)
              => LET comps == Components(p)
                     n == comps[Len(comps)]
                     listing == Listing(store, ParentOf(comps))
                 IN  HasFileEntry(listing, n) /\ HasFolderEntry(listing, n)
        /\ \A stored \in Partitions, part \in Partitions :
              LET below == p \o <<"/", "a">>
              IN  /\ (Prefix(stored) \o p) \in DOMAIN store
                        => CreateBeside(part, below, Prefix(stored) \o p)
                  /\ (Prefix(stored) \o below) \in DOMAIN store
                        => CreateBeside(part, p, Prefix(stored) \o below)

\* a/b is stored as a file, a/b/a is stored under it, and the last call
\* listed a: a file entry b and a folder entry b.
C30_Witness ==
    /\ Collides(store, <<"a", "/", "b">>)
    /\ <<"a", "/", "b", "/", "a">> \in AllStoredPaths(store)
    /\ resp.op = "list"
    /\ resp.body = Listing(store, <<"a">>)
    /\ HasFileEntry(resp.body, <<"b">>)
    /\ HasFolderEntry(resp.body, <<"b">>)

====
